---------------------------- MODULE Spec2Model ----------------------------
(***************************************************************************)
(* A model of codegraph (RussellLuo/codegraph): the repository walker, the *)
(* Go and TypeScript tree-sitter adapters, the Kuzu store facade and the   *)
(* CodeGraph orchestrator that indexes a repository into the store.        *)
(*                                                                         *)
(* Strings the program takes apart are kept in split form:                 *)
(*   - a path is the sequence of its '/'-separated components, and a       *)
(*     component is the sequence of its '.'-separated pieces, so           *)
(*     "p/b.go" is << <<"p">>, <<"b","go">> >>, "" is << >> and "." is     *)
(*     << <<"","">> >>;                                                    *)
(*   - a node name "<path>:<A>.<B>" is [path |-> .., sym |-> <<"A","B">>]. *)
(* The store keeps one table per node type, keyed by name, and a set of    *)
(* typed edges; parallel edges with identical attributes are not counted.  *)
(***************************************************************************)
EXTENDS Naturals, Sequences, FiniteSets, TLC

VARIABLES
    fs,           \* the repository on disk: [files, dirs, gomod, unreadable]
    config,       \* ParserConfig: [ignore_patterns, continue_on_error]
    initialized,  \* Database.initialized
    db_dir,       \* whether the directory at Database.db_path exists
    db_nodes,     \* rows of the node tables of the store
    db_edges,     \* rows of the relation tables of the store
    parsed,       \* what the last Parser::parse returned
    last,         \* the last operation, its arguments, result and pre-state
    steps         \* number of operations performed

vars == <<fs, config, initialized, db_dir, db_nodes, db_edges, parsed, last, steps>>

\* Option<T>: None is the empty set, Some(x) the singleton {x}
None == {}

Some(x) == {x}

unwrap(o) == CHOOSE x \in o : TRUE

\* a text without '.' as the sequence of its '.'-separated pieces
Text(s) == << s >>

(***************************************************************************)
(* Names and paths                                                         *)
(***************************************************************************)
RootPath == << >>

DotPath == << <<"", "">> >>

PathName(p) == [path |-> p, sym |-> << >>]

SymName(p, s) == [path |-> p, sym |-> s]

RootName == PathName(RootPath)

DotName == PathName(DotPath)

is_empty(name) == name.path = << >> /\ name.sym = << >>

Parent(p) == SubSeq(p, 1, Len(p) - 1)

\* str::to_lowercase over the identifiers the model uses
to_lowercase(s) ==
    CASE s = "T" -> "t"
      [] s = "U" -> "u"
      [] s = "K" -> "k"
      [] OTHER -> s

(***************************************************************************)
(* types.rs                                                                *)
(***************************************************************************)
NodeTypes == {"unparsed", "directory", "file", "interface", "class", "function", "othertype"}

EdgeTypes == {"contains", "imports", "inherits", "references"}

\* Path::extension of the last component
extension(p) ==
    IF p = << >> THEN ""
    ELSE LET c == p[Len(p)] IN IF Len(c) >= 2 /\ c[1] # "" THEN c[Len(c)] ELSE ""

from_path(p) ==
    LET ext == extension(p) IN
    CASE ext = "py" -> "Python"
      [] ext = "go" -> "Go"
      [] ext = "ts" -> "TypeScript"
      [] OTHER -> "Text"

from_type_and_name(type, name) ==
    [name |-> name, type |-> type, language |-> "Text", start_line |-> 0,
     end_line |-> 0, code |-> "", skeleton_code |-> << >>]

\* the lowercased trailing piece of a name: the file name when the name has
\* no ':', else the text after the last ':' and after its last '.'
short_name(name) ==
    IF name.sym = << >>
    THEN IF name.path = << >> THEN << "" >>
         ELSE [i \in 1..Len(name.path[Len(name.path)]) |->
                  to_lowercase(name.path[Len(name.path)][i])]
    ELSE << to_lowercase(name.sym[Len(name.sym)]) >>

\* Node::to_dict: the row written for a node; a column the node's type does
\* not carry holds the empty text or 0
to_dict(n) ==
    IF n.type \in {"unparsed", "directory"}
    THEN [name |-> n.name, type |-> n.type, short_name |-> short_name(n.name),
          language |-> "", code |-> "", skeleton_code |-> << >>,
          start_line |-> 0, end_line |-> 0]
    ELSE IF n.type = "file"
    THEN [name |-> n.name, type |-> n.type, short_name |-> short_name(n.name),
          language |-> n.language, code |-> n.code,
          skeleton_code |-> n.skeleton_code,
          start_line |-> 0, end_line |-> 0]
    ELSE [name |-> n.name, type |-> n.type, short_name |-> short_name(n.name),
          language |-> n.language, code |-> n.code,
          skeleton_code |-> n.skeleton_code,
          start_line |-> n.start_line, end_line |-> n.end_line]

from_to(e) == <<e.from.type, e.to.type>>

\* Edge::to_dict: from, to, the endpoint types, and import/alias for Imports
edge_to_dict(e) ==
    [type |-> e.type, from |-> e.from.name, from_type |-> e.from.type,
     to |-> e.to.name, to_type |-> e.to.type,
     import |-> IF e.type = "imports" THEN e.import ELSE None,
     alias |-> IF e.type = "imports" THEN e.alias ELSE None]

Edge(type, from, to, import, alias) ==
    [type |-> type, from |-> from, to |-> to, import |-> import, alias |-> alias]

(***************************************************************************)
(* Source text.  A file's bytes are modelled by the query matches          *)
(* tree-sitter yields for them, in order; a match carries its captures.    *)
(* A parameter type is the sequence of its tokens, e.g. <<"*", "T">>,      *)
(* <<"p", ".", "T">>.                                                      *)
(***************************************************************************)
NoMatch ==
    [pattern |-> "", name |-> "", code |-> "", start_line |-> 0, end_line |-> 0,
     body |-> FALSE, alias |-> None, namespace_alias |-> None,
     named_name |-> None, named_alias |-> None, default_alias |-> None,
     path |-> << >>,
     relative |-> FALSE, up |-> 0, first_return_type |-> None,
     receiver_type |-> None, parent_class |-> None, param_types |-> << >>]

\* IndexMap<String, Node>: a sequence of nodes with distinct names
contains_key(nodes, name) == \E i \in 1..Len(nodes) : nodes[i].name = name

get(nodes, name) == nodes[CHOOSE i \in 1..Len(nodes) : nodes[i].name = name]

insert(nodes, n) ==
    IF contains_key(nodes, n.name)
    THEN [i \in 1..Len(nodes) |-> IF nodes[i].name = n.name THEN n ELSE nodes[i]]
    ELSE Append(nodes, n)

NoResult == [nodes |-> << >>, edges |-> << >>, pending_imports |-> << >>,
             func_param_types |-> << >>]

FuncParamType(func, type_name, package_name) ==
    [func |-> func, type_name |-> type_name, package_name |-> package_name]

MaxOf(S) == CHOOSE x \in S : \A y \in S : y <= x

MinOf(S) == CHOOSE x \in S : \A y \in S : x <= y

(***************************************************************************)
(* The repository on disk: fs.files maps the path of each file to its      *)
(* source text, fs.dirs holds the directories below the root, fs.gomod the *)
(* module path of go.mod.                                                  *)
(***************************************************************************)
is_file(f, p) == p \in DOMAIN f.files

is_dir(f, p) == p = RootPath \/ p \in f.dirs

exists(f, p) == is_file(f, p) \/ is_dir(f, p)

\* util::get_go_repo_module_path
get_go_repo_module_path(f) == f.gomod

(***************************************************************************)
(* util.rs                                                                 *)
(***************************************************************************)
\* the import path with the module path stripped, component by component
get_repo_module_file_path(repo_mod_path, mod_import_path) ==
    IF /\ Len(mod_import_path) >= Len(repo_mod_path)
       /\ SubSeq(mod_import_path, 1, Len(repo_mod_path)) = repo_mod_path
    THEN Some(SubSeq(mod_import_path, Len(repo_mod_path) + 1, Len(mod_import_path)))
    ELSE None

is_go_builtin_type(type_name) ==
    type_name \in {"bool", "byte", "rune", "int", "int8", "int16", "int32", "int64",
                   "uint", "uint8", "uint16", "uint32", "uint64", "uintptr",
                   "float32", "float64", "complex64", "complex128", "string",
                   "error", "interface{}", "any"}

(***************************************************************************)
(* parser/common.rs and parser/go.rs                                       *)
(***************************************************************************)
\* parse_simple_interface, parse_simple_class, parse_simple_enum and
\* parse_simple_type_alias differ in the node type only
parse_simple(type, file_node, m) ==
    [name |-> SymName(file_node.name.path, << m.name >>), type |-> type,
     language |-> file_node.language, start_line |-> m.start_line,
     end_line |-> m.end_line, code |-> m.code, skeleton_code |-> << >>]

\* PendingImport::import_name
import_name(imp) ==
    IF imp.alias # None THEN unwrap(imp.alias) ELSE unwrap(imp.symbol)

\* the text after the last '*' or ']' of a Go parameter type
go_base_type(toks) ==
    LET cut == {i \in 1..Len(toks) : toks[i] \in {"*", "]"}} IN
    IF cut = {} THEN toks ELSE SubSeq(toks, MaxOf(cut) + 1, Len(toks))

\* the target of the first import edge whose import or alias is the package
RECURSIVE go_import_target(_, _)
go_import_target(import_edges, package_name) ==
    IF import_edges = << >> THEN None
    ELSE LET rel == Head(import_edges) IN
         IF rel.import = Some(Text(package_name)) \/ rel.alias = Some(Text(package_name))
         THEN Some(rel.to.name)
         ELSE go_import_target(Tail(import_edges), package_name)

parse_func_param_type(from_node_name, param_type_name, import_edges) ==
    IF param_type_name = << >> THEN None
    ELSE IF Head(param_type_name) \in {"func", "struct", "interface"} THEN None
    ELSE LET param_type == go_base_type(param_type_name)
             dots == {i \in 1..Len(param_type) : param_type[i] = "."}
             type_name == param_type[Len(param_type)]
             parent_dir_path == Parent(from_node_name.path)
             real_package_name ==
                 IF dots # {}
                 THEN go_import_target(import_edges, param_type[1])
                 ELSE IF parent_dir_path = << >> THEN Some(DotName)
                      ELSE Some(PathName(parent_dir_path))
         IN IF param_type = << >> \/ is_go_builtin_type(type_name) THEN None
            ELSE Some(FuncParamType(from_node_name, type_name, real_package_name))

RECURSIVE go_param_types(_, _, _)
go_param_types(from_node_name, param_type_names, import_edges) ==
    IF param_type_names = << >> THEN << >>
    ELSE LET pt == parse_func_param_type(from_node_name, Head(param_type_names),
                                         import_edges)
             rest == go_param_types(from_node_name, Tail(param_type_names), import_edges)
         IN IF pt = None THEN rest ELSE << unwrap(pt) >> \o rest

GoBody == "{\n...\n}"

\* QueryPattern::Import of the Go adapter
go_import(acc, file_node, m, go_module_path) ==
    IF go_module_path = None THEN acc
    ELSE LET mod_file_path == get_repo_module_file_path(unwrap(go_module_path), m.path) IN
         IF mod_file_path = None THEN acc
         ELSE [acc EXCEPT !.edges = Append(@,
                  Edge("imports",
                       from_type_and_name(file_node.type, file_node.name),
                       from_type_and_name("directory", PathName(unwrap(mod_file_path))),
                       Some(m.path[Len(m.path)]), m.alias))]

\* QueryPattern::Interface and QueryPattern::Class of the Go adapter
go_simple(acc, type, file_node, m) ==
    LET curr_node == parse_simple(type, file_node, m) IN
    [acc EXCEPT !.nodes = insert(@, curr_node),
                !.edges = Append(@, Edge("contains", file_node, curr_node, None, None))]

\* QueryPattern::Function and QueryPattern::Method of the Go adapter; owner
\* is the first return type of a function, the receiver type of a method
go_function(acc, file_node, m, owner) ==
    LET fpath == file_node.name.path
        parent_struct_name ==
            IF owner # None /\ contains_key(acc.nodes, SymName(fpath, << unwrap(owner) >>))
            THEN owner ELSE None
        name == IF parent_struct_name # None
                THEN SymName(fpath, << unwrap(parent_struct_name), m.name >>)
                ELSE SymName(fpath, << m.name >>)
        curr_node ==
            [name |-> name, type |-> "function", language |-> file_node.language,
             start_line |-> m.start_line, end_line |-> m.end_line, code |-> m.code,
             skeleton_code |-> IF m.body THEN << m.code, GoBody >> ELSE << >>]
        acc1 == [acc EXCEPT !.func_param_types =
                    @ \o go_param_types(name, m.param_types, acc.edges)]
        parent_node == IF parent_struct_name # None
                       THEN get(acc.nodes, SymName(fpath, << unwrap(parent_struct_name) >>))
                       ELSE file_node
    IN IF contains_key(acc.nodes, name) THEN acc1
       ELSE [acc1 EXCEPT !.nodes = insert(@, curr_node),
                         !.edges = Append(@, Edge("contains", parent_node, curr_node,
                                                  None, None))]

go_match(acc, file_node, m, go_module_path) ==
    CASE m.pattern = "Import" -> go_import(acc, file_node, m, go_module_path)
      [] m.pattern = "Interface" -> go_simple(acc, "interface", file_node, m)
      [] m.pattern = "Class" -> go_simple(acc, "class", file_node, m)
      [] m.pattern = "Function" -> go_function(acc, file_node, m, m.first_return_type)
      [] m.pattern = "Method" -> go_function(acc, file_node, m, m.receiver_type)
      [] OTHER -> acc

RECURSIVE go_parse_from(_, _, _, _)
go_parse_from(acc, file_node, matches, go_module_path) ==
    IF matches = << >> THEN acc
    ELSE go_parse_from(go_match(acc, file_node, Head(matches), go_module_path),
                       file_node, Tail(matches), go_module_path)

\* go::Parser::parse: the adapter reads the file at file_path itself
go_parse(f, file_node, file_path) ==
    go_parse_from(NoResult, file_node, f.files[file_path], get_go_repo_module_path(f))

(***************************************************************************)
(* parser/typescript.rs                                                    *)
(***************************************************************************)
TsBody == "{ ... }"

TsPunct == {"<", ">", ",", " ", "[]", "|", "&", ".", "?", ":"}

ts_builtin_types ==
    {"string", "number", "boolean", "any", "void", "null", "undefined", "unknown",
     "never", "object", "bigint", "symbol", "function", "Map", "Promise", "Array",
     "Record", "Partial"}

RECURSIVE skip_brackets(_, _)
skip_brackets(toks, i) ==
    IF i <= Len(toks) /\ toks[i] = "[]" THEN skip_brackets(toks, i + 1) ELSE i

\* the identifiers the regex (^|[<,\s])(ident)(\[\])*(>|,|\s|$|&|\|)? finds,
\* scanning from token i; a match consumes its leading and trailing delimiter
RECURSIVE ts_scan(_, _, _, _)
ts_scan(toks, i, exclude_builtin, found) ==
    IF i > Len(toks) THEN found
    ELSE LET lead == toks[i] \in {"<", ",", " "} /\ i + 1 <= Len(toks)
                       /\ toks[i + 1] \notin TsPunct
             j == IF i = 1 /\ toks[1] \notin TsPunct THEN 1
                  ELSE IF lead THEN i + 1 ELSE 0
         IN IF j = 0 THEN ts_scan(toks, i + 1, exclude_builtin, found)
            ELSE LET k == skip_brackets(toks, j + 1)
                     next == IF k <= Len(toks) /\ toks[k] \in {">", ",", " ", "&", "|"}
                             THEN k + 1 ELSE k
                     keep == /\ ~(exclude_builtin /\ toks[j] \in ts_builtin_types)
                             /\ \A x \in 1..Len(found) : found[x] # toks[j]
                 IN ts_scan(toks, next, exclude_builtin,
                            IF keep THEN Append(found, toks[j]) ELSE found)

extract_ts_types(type_str, exclude_builtin) == ts_scan(type_str, 1, exclude_builtin, << >>)

\* HashMap::get on import_name_to_source_path: the last insert for a key wins
RECURSIVE map_get(_, _)
map_get(map, key) ==
    IF map = << >> THEN None
    ELSE IF map[Len(map)].key = key THEN Some(map[Len(map)].value)
    ELSE map_get(SubSeq(map, 1, Len(map) - 1), key)

\* the names extracted from a type hold no '.', so every one of them is
\* looked up as a directly imported name and else taken as local to the file
RECURSIVE ts_owner_records(_, _, _)
ts_owner_records(from_node_name, type_names, import_name_to_source_path) ==
    IF type_names = << >> THEN << >>
    ELSE LET type_name == Head(type_names)
             source_path == map_get(import_name_to_source_path, Text(type_name))
             source_node_name == IF source_path # None THEN PathName(unwrap(source_path))
                                 ELSE PathName(from_node_name.path)
         IN << FuncParamType(from_node_name, type_name, Some(source_node_name)) >>
            \o ts_owner_records(from_node_name, Tail(type_names),
                                import_name_to_source_path)

parse_func_param_types(from_node_name, param_type_name, import_name_to_source_path) ==
    ts_owner_records(from_node_name, extract_ts_types(param_type_name, TRUE),
                     import_name_to_source_path)

RECURSIVE ts_param_types(_, _, _)
ts_param_types(from_node_name, param_type_names, import_name_to_source_path) ==
    IF param_type_names = << >> THEN << >>
    ELSE parse_func_param_types(from_node_name, Head(param_type_names),
                                import_name_to_source_path)
         \o ts_param_types(from_node_name, Tail(param_type_names),
                           import_name_to_source_path)

\* Path::with_extension on the last component
with_extension(p, ext) ==
    LET c == p[Len(p)]
        stem == IF Len(c) >= 2 THEN SubSeq(c, 1, Len(c) - 1) ELSE c
    IN SubSeq(p, 1, Len(p) - 1) \o << stem \o << ext >> >>

\* the repo-relative path a relative import specifier resolves to
ts_import_source(f, file_path, m) ==
    LET current_file_dir == Parent(file_path)
        import_file_path ==
            SubSeq(current_file_dir, 1, Len(current_file_dir) - m.up) \o m.path
        index_d_ts == import_file_path \o << <<"index", "d", "ts">> >>
        index_ts == import_file_path \o << <<"index", "ts">> >>
        index_js == import_file_path \o << <<"index", "js">> >>
    IN IF is_dir(f, import_file_path)
       THEN IF exists(f, index_d_ts) THEN index_d_ts
            ELSE IF exists(f, index_ts) THEN index_ts
            ELSE IF exists(f, index_js) THEN index_js
            ELSE import_file_path
       ELSE IF exists(f, with_extension(import_file_path, "ts"))
            THEN with_extension(import_file_path, "ts")
            ELSE IF exists(f, with_extension(import_file_path, "js"))
            THEN with_extension(import_file_path, "js")
            ELSE import_file_path

\* QueryPattern::Import of the TypeScript adapter
ts_import(acc, f, file_node, m) ==
    LET symbol == IF m.default_alias # None THEN Some(Text("export default"))
                  ELSE m.named_name
        alias == IF m.default_alias # None THEN m.default_alias
                 ELSE IF m.named_alias # None THEN m.named_alias
                 ELSE m.namespace_alias
        import == [file |-> file_node.name, language |-> "TypeScript",
                   source_path |-> IF m.relative
                                   THEN ts_import_source(f, file_node.name.path, m)
                                   ELSE << >>,
                   symbol |-> symbol, alias |-> alias]
    IN IF import.source_path # << >>
       THEN [acc EXCEPT
                !.pending_imports = Append(@, import),
                !.import_name_to_source_path =
                    Append(@, [key |-> import_name(import), value |-> import.source_path])]
       ELSE acc

\* QueryPattern::Interface, Class, Enum and TypeAlias of the TypeScript adapter
ts_simple(acc, type, file_node, m) ==
    LET base == parse_simple(type, file_node, m)
        curr_node == IF type = "class" /\ m.body
                     THEN [base EXCEPT !.skeleton_code = << m.code, TsBody >>]
                     ELSE base
    IN [acc EXCEPT !.nodes = insert(@, curr_node),
                   !.edges = Append(@, Edge("contains", file_node, curr_node, None, None))]

\* QueryPattern::Function of the TypeScript adapter
ts_function(acc, file_node, m) ==
    LET name == SymName(file_node.name.path, << m.name >>)
        curr_node ==
            [name |-> name, type |-> "function", language |-> file_node.language,
             start_line |-> m.start_line, end_line |-> m.end_line, code |-> m.code,
             skeleton_code |-> IF m.body THEN << m.code, TsBody >> ELSE << >>]
        acc1 == [acc EXCEPT !.func_param_types =
                    @ \o ts_param_types(name, m.param_types,
                                        acc.import_name_to_source_path)]
    IN IF contains_key(acc.nodes, name) THEN acc1
       ELSE [acc1 EXCEPT !.nodes = insert(@, curr_node),
                         !.edges = Append(@, Edge("contains", file_node, curr_node,
                                                  None, None))]

\* QueryPattern::Method of the TypeScript adapter
ts_method(acc, file_node, m) ==
    IF m.parent_class = None THEN acc
    ELSE LET parent_class_node_name ==
                 SymName(file_node.name.path, << unwrap(m.parent_class) >>)
             name == SymName(file_node.name.path, << unwrap(m.parent_class), m.name >>)
             curr_node ==
                 [name |-> name, type |-> "function", language |-> file_node.language,
                  start_line |-> m.start_line, end_line |-> m.end_line,
                  code |-> m.code,
                  skeleton_code |-> IF m.body THEN << m.code, TsBody >> ELSE << >>]
             acc1 == [acc EXCEPT !.func_param_types =
                         @ \o ts_param_types(name, m.param_types,
                                             acc.import_name_to_source_path)]
         IN IF contains_key(acc.nodes, name) THEN acc1
            ELSE IF contains_key(acc.nodes, parent_class_node_name)
            THEN [acc1 EXCEPT
                     !.nodes = insert(@, curr_node),
                     !.edges = Append(@, Edge("contains",
                                              get(acc.nodes, parent_class_node_name),
                                              curr_node, None, None))]
            ELSE [acc1 EXCEPT !.nodes = insert(@, curr_node)]

ts_match(acc, f, file_node, m) ==
    CASE m.pattern = "Import" -> ts_import(acc, f, file_node, m)
      [] m.pattern = "Interface" -> ts_simple(acc, "interface", file_node, m)
      [] m.pattern = "Class" -> ts_simple(acc, "class", file_node, m)
      [] m.pattern = "Function" -> ts_function(acc, file_node, m)
      [] m.pattern = "Method" -> ts_method(acc, file_node, m)
      [] m.pattern = "Enum" -> ts_simple(acc, "othertype", file_node, m)
      [] m.pattern = "TypeAlias" -> ts_simple(acc, "othertype", file_node, m)
      [] OTHER -> acc

RECURSIVE ts_parse_from(_, _, _, _)
ts_parse_from(acc, f, file_node, matches) ==
    IF matches = << >> THEN acc
    ELSE ts_parse_from(ts_match(acc, f, file_node, Head(matches)), f, file_node,
                       Tail(matches))

\* what the adapter returns: its accumulators without the local import map
ts_result(acc) ==
    [nodes |-> acc.nodes, edges |-> acc.edges,
     pending_imports |-> acc.pending_imports,
     func_param_types |-> acc.func_param_types]

\* typescript::Parser::parse
ts_parse(f, file_node, source_code) ==
    ts_result(ts_parse_from(
                  [nodes |-> << >>, edges |-> << >>, pending_imports |-> << >>,
                   func_param_types |-> << >>, import_name_to_source_path |-> << >>],
                  f, file_node, source_code))

\* python::Parser::parse: class definitions only, lines counted from 1
RECURSIVE py_parse_from(_, _, _)
py_parse_from(acc, file_node, matches) ==
    IF matches = << >> THEN acc
    ELSE LET m == Head(matches)
             node == [parse_simple("class", file_node, m) EXCEPT
                         !.start_line = m.start_line + 1, !.end_line = m.end_line + 1]
         IN py_parse_from(
                IF m.pattern = "Class"
                THEN [acc EXCEPT !.nodes = insert(@, node),
                                 !.edges = Append(@, Edge("contains", file_node, node,
                                                          None, None))]
                ELSE acc,
                file_node, Tail(matches))

\* python::Parser::parse: the adapter reads the file at file_path itself
py_parse(f, file_node, file_path) == py_parse_from(NoResult, file_node, f.files[file_path])

(***************************************************************************)
(* parser.rs: the walker and the coordinator                               *)
(***************************************************************************)
\* every directory and file below the root
Entries(f) == f.dirs \cup DOMAIN f.files

Children(f, d) == {p \in Entries(f) : Len(p) = Len(d) + 1 /\ Parent(p) = d}

\* the orders in which WalkDir can yield the entries below a set of sibling
\* entries: depth first, a directory before its contents, siblings in any
\* order; of a directory it cannot list it yields the directory and then an
\* error in place of the contents
RECURSIVE WalkOrders(_, _)
WalkOrders(f, siblings) ==
    IF siblings = {} THEN { << >> }
    ELSE UNION { { << c >> \o sub \o rest :
                      sub \in IF is_dir(f, c) /\ c \notin f.unreadable
                              THEN WalkOrders(f, Children(f, c))
                              ELSE { << >> },
                      rest \in WalkOrders(f, siblings \ {c}) } : c \in siblings }

\* glob::Pattern::matches for the pattern forms in use; '*' also matches '/'
\*   star  "*"          ext   "*.<arg>"
\*   lit   "<arg>"      under "<arg>/*"
glob_matches(pat, rel_path) ==
    CASE pat.kind = "star" -> TRUE
      [] pat.kind = "ext" ->
            LET c == rel_path[Len(rel_path)] IN Len(c) >= 2 /\ c[Len(c)] = pat.arg
      [] pat.kind = "lit" -> rel_path = pat.arg
      [] pat.kind = "under" ->
            /\ Len(rel_path) > Len(pat.arg)
            /\ SubSeq(rel_path, 1, Len(pat.arg)) = pat.arg
      [] OTHER -> FALSE

\* the ignore check of traverse_directory: a positive pattern matches and no
\* pattern written with a leading '!' matches
should_skip(ignore_patterns, rel_path) ==
    /\ \E i \in 1..Len(ignore_patterns) :
          ~ignore_patterns[i].neg /\ glob_matches(ignore_patterns[i], rel_path)
    /\ ~\E i \in 1..Len(ignore_patterns) :
          ignore_patterns[i].neg /\ glob_matches(ignore_patterns[i], rel_path)

RECURSIVE insert_all(_, _)
insert_all(nodes, ns) ==
    IF ns = << >> THEN nodes ELSE insert_all(insert(nodes, Head(ns)), Tail(ns))

FileNode(file_path) ==
    [name |-> PathName(file_path), type |-> "file", language |-> from_path(file_path),
     start_line |-> 0, end_line |-> 0, code |-> "", skeleton_code |-> << >>]

\* the tuple parse_file returns
file_result(file_node, r) ==
    [file_node |-> file_node, nodes |-> r.nodes, edges |-> r.edges,
     pending_imports |-> r.pending_imports, func_param_types |-> r.func_param_types]

\* the adapters that open the file at the path they are given
reads_disk(file_path) == from_path(file_path) \in {"Python", "Go"}

\* Parser::parse_file: the file node and what the adapter of its language
\* returns; content is the File.content handed to the TypeScript adapter
parse_file(f, file_path, content) ==
    file_result(FileNode(file_path),
        CASE from_path(file_path) = "Python" -> py_parse(f, FileNode(file_path), file_path)
          [] from_path(file_path) = "Go" -> go_parse(f, FileNode(file_path), file_path)
          [] from_path(file_path) = "TypeScript" ->
                 ts_parse(f, FileNode(file_path), content)
          [] OTHER -> NoResult)

NoWalk ==
    [nodes |-> << >>, relationships |-> << >>, processed |-> {},
     pending_imports |-> << >>, func_param_types |-> << >>, error |-> ""]

\* the entry a directory contributes: its node and nothing else
dir_result(entry_path) ==
    file_result(from_type_and_name("directory", PathName(entry_path)), NoResult)

\* a loop body that takes the directory node added last as the parent
add_entry_under_last_directory(acc, entry_path, r) ==
    LET current_node == r.file_node
        last_dir == MaxOf({i \in 1..Len(acc.nodes) : acc.nodes[i].type = "directory"})
    IN [nodes |-> insert(insert_all(acc.nodes, r.nodes), current_node),
        relationships |->
            Append(acc.relationships \o r.edges,
                   Edge("contains", acc.nodes[last_dir], current_node, None, None)),
        processed |-> acc.processed \cup {entry_path},
        pending_imports |-> acc.pending_imports \o r.pending_imports,
        func_param_types |-> acc.func_param_types \o r.func_param_types,
        error |-> acc.error]

\* the part of the loop body of traverse_directory that follows the ignore
\* check, r being the node of the entry and what parsing it returned
add_entry(acc, entry_path, r) ==
    LET current_node == r.file_node
        parent_path == Parent(entry_path)
        create_parent == parent_path \notin acc.processed /\ parent_path # RootPath
        parent_node == from_type_and_name("directory", PathName(parent_path))
        nodes1 == insert(insert_all(acc.nodes, r.nodes), current_node)
        nodes2 == IF create_parent THEN insert(nodes1, parent_node) ELSE nodes1
        rels1 == acc.relationships \o r.edges
    IN [nodes |-> nodes2,
        relationships |->
            IF contains_key(nodes2, PathName(parent_path))
            THEN Append(rels1, Edge("contains", get(nodes2, PathName(parent_path)),
                                    current_node, None, None))
            ELSE rels1,
        processed |-> acc.processed \cup {entry_path}
                         \cup (IF create_parent THEN {parent_path} ELSE {}),
        pending_imports |-> acc.pending_imports \o r.pending_imports,
        func_param_types |-> acc.func_param_types \o r.func_param_types,
        error |-> acc.error]

\* the Ok(entry) arm of the loop of traverse_directory; the adapters that
\* open the file themselves panic on a file that cannot be read
visit_entry(f, cfg, acc, entry_path) ==
    IF entry_path \in acc.processed THEN acc
    ELSE IF should_skip(cfg.ignore_patterns, entry_path) THEN acc
    ELSE IF is_file(f, entry_path) /\ entry_path \in f.unreadable
            /\ reads_disk(entry_path)
    THEN [acc EXCEPT !.error = "Panic"]
    ELSE add_entry(acc, entry_path,
                   IF is_dir(f, entry_path) THEN dir_result(entry_path)
                   ELSE parse_file(f, entry_path, f.files[entry_path]))

\* the Err(err) arm: the walk goes on when continue_on_error is set and
\* returns the error otherwise
walk_error(cfg, acc) ==
    IF acc.error # "" \/ cfg.continue_on_error THEN acc
    ELSE [acc EXCEPT !.error = "WalkError"]

\* the body of the loop of traverse_directory for one entry and, behind a
\* directory that cannot be listed, for the error WalkDir yields next
visit(f, cfg, acc, entry_path) ==
    IF acc.error # "" THEN acc
    ELSE IF is_dir(f, entry_path) /\ entry_path \in f.unreadable
    THEN walk_error(cfg, visit_entry(f, cfg, acc, entry_path))
    ELSE visit_entry(f, cfg, acc, entry_path)

RECURSIVE visit_all(_, _, _, _)
visit_all(f, cfg, acc, order) ==
    IF order = << >> THEN acc
    ELSE visit_all(f, cfg, visit(f, cfg, acc, Head(order)), Tail(order))

\* Parser::traverse_directory over the repository root, the walk yielding the
\* entries in the given order
traverse_directory(f, cfg, order) ==
    visit_all(f, cfg,
              [NoWalk EXCEPT !.nodes = << from_type_and_name("directory", RootName) >>,
                             !.processed = {RootPath}],
              order)

\* an import pass that looks up the source file only, whatever the symbol
RECURSIVE resolve_pending_imports_to_file(_, _)
resolve_pending_imports_to_file(nodes, pending_imports) ==
    IF pending_imports = << >> THEN << >>
    ELSE LET imp == Head(pending_imports)
             rest == resolve_pending_imports_to_file(nodes, Tail(pending_imports))
         IN IF contains_key(nodes, imp.file) /\ contains_key(nodes, PathName(imp.source_path))
            THEN << Edge("imports", get(nodes, imp.file),
                         get(nodes, PathName(imp.source_path)),
                         imp.symbol, imp.alias) >> \o rest
            ELSE rest

\* typescript::Parser::resolve_pending_imports
RECURSIVE resolve_pending_imports(_, _)
resolve_pending_imports(nodes, pending_imports) ==
    IF pending_imports = << >> THEN << >>
    ELSE LET imp == Head(pending_imports)
             imported_node_name ==
                 IF imp.symbol # None THEN SymName(imp.source_path, unwrap(imp.symbol))
                 ELSE PathName(imp.source_path)
             rest == resolve_pending_imports(nodes, Tail(pending_imports))
         IN IF contains_key(nodes, imp.file) /\ contains_key(nodes, imported_node_name)
            THEN << Edge("imports", get(nodes, imp.file), get(nodes, imported_node_name),
                         imp.symbol, imp.alias) >> \o rest
            ELSE rest

(***************************************************************************)
(* db.rs: the store facade.  A store value is [nodes, edges].              *)
(***************************************************************************)
EmptyStore == [nodes |-> {}, edges |-> {}]

HasNode(S, type, name) == \E r \in S.nodes : r.type = type /\ r.name = name

\* MERGE (n:<Type> {name}) ON CREATE SET .. ON MATCH SET .. for one node
upsert_node(S, n) ==
    [S EXCEPT !.nodes = {r \in @ : ~(r.type = n.type /\ r.name = n.name)}
                           \cup {to_dict(n)}]

RECURSIVE upsert_nodes(_, _)
upsert_nodes(S, ns) ==
    IF ns = << >> THEN S
    ELSE upsert_nodes(upsert_node(S, Head(ns)), Tail(ns))

SameEndpoints(r, d) ==
    /\ r.type = d.type
    /\ r.from = d.from /\ r.from_type = d.from_type
    /\ r.to = d.to /\ r.to_type = d.to_type

\* a MERGE of the edge that does not MATCH its endpoints first
upsert_relationship_unmatched(S, e) ==
    [S EXCEPT !.edges = {r \in @ : ~SameEndpoints(r, edge_to_dict(e))}
                            \cup {edge_to_dict(e)}]

\* MATCH (a:<From>), (b:<To>) WHERE a.name = .. AND b.name = ..
\* MERGE (a)-[e:<TYPE>]->(b) ON CREATE SET .. ON MATCH SET ..
upsert_relationship(S, e) ==
    LET d == edge_to_dict(e) IN
    IF HasNode(S, d.from_type, d.from) /\ HasNode(S, d.to_type, d.to)
    THEN [S EXCEPT !.edges = {r \in @ : ~SameEndpoints(r, d)} \cup {d}]
    ELSE S

RECURSIVE upsert_relationships(_, _)
upsert_relationships(S, es) ==
    IF es = << >> THEN S
    ELSE upsert_relationships(upsert_relationship(S, Head(es)), Tail(es))

\* a delete that also drops every edge of the store
delete_nodes_wipe_edges(S, names) ==
    IF names = {} THEN S
    ELSE [nodes |-> {r \in S.nodes : r.name \notin names}, edges |-> {}]

\* a delete that detaches the outgoing edges only
delete_nodes_keep_incoming(S, names) ==
    IF names = {} THEN S
    ELSE [nodes |-> {r \in S.nodes : r.name \notin names},
          edges |-> {r \in S.edges : r.from \notin names}]

\* a delete that drops the rows but leaves their edges in place
delete_nodes_keep_edges(S, names) ==
    [S EXCEPT !.nodes = {r \in @ : r.name \notin names}]

\* MATCH (n) WHERE n.name IN [..] DETACH DELETE n
delete_nodes(S, names) ==
    IF names = {} THEN S
    ELSE [nodes |-> {r \in S.nodes : r.name \notin names},
          edges |-> {r \in S.edges : r.from \notin names /\ r.to \notin names}]

\* MATCH (n) DETACH DELETE n, run only when the database handle is open
clean(S, open) == IF open THEN EmptyStore ELSE S

Store == [nodes |-> db_nodes, edges |-> db_edges]

\* write_nodes_to_csv: the empty name is staged as "."
csv_name(name) == IF is_empty(name) THEN DotName ELSE name

node_csv_row(n) == [to_dict(n) EXCEPT !.name = csv_name(@)]

\* an optional column is staged as the empty field when absent, and COPY
\* reads the empty field back as NULL
csv_field(o) == IF o = None THEN << "" >> ELSE unwrap(o)

copy_field(t) == IF t = << "" >> THEN None ELSE Some(t)

\* write_relationships_to_csv: empty endpoint names are staged as "."
edge_csv_row(e) ==
    [type |-> e.type, from |-> csv_name(e.from.name), from_type |-> e.from.type,
     to |-> csv_name(e.to.name), to_type |-> e.to.type,
     import |-> IF e.type = "imports" THEN copy_field(csv_field(e.import)) ELSE None,
     alias |-> IF e.type = "imports" THEN copy_field(csv_field(e.alias)) ELSE None]

node_group(ns, type) == {node_csv_row(ns[i]) : i \in {j \in 1..Len(ns) : ns[j].type = type}}

\* COPY <Table> FROM <file>: fails as a whole on a primary key already there
node_copy_ok(S, rows) ==
    \A row \in rows : ~\E r \in S.nodes : r.type = row.type /\ r.name = row.name

\* bulk_insert_nodes_via_csv: one COPY per node type, in the order read_dir
\* lists the staging files; the first failing COPY ends the call with an
\* error, the groups copied before it staying in the store.  The outcomes
\* are [store, ok].
bulk_insert_nodes_via_csv(S, ns) ==
    LET types == {ns[i].type : i \in 1..Len(ns)}
        bad == {t \in types : ~node_copy_ok(S, node_group(ns, t))}
        with(ts) == [S EXCEPT !.nodes = @ \cup UNION {node_group(ns, t) : t \in ts}]
    IN IF bad = {} THEN { [store |-> with(types), ok |-> TRUE] }
       ELSE { [store |-> with(done), ok |-> FALSE] : done \in SUBSET (types \ bad) }

\* bulk_insert_relationships_via_csv: one COPY per (type, from type, to type);
\* a COPY that names a missing endpoint fails as a whole and is only logged
bulk_insert_relationships_via_csv(S, es) ==
    LET rows == {edge_csv_row(es[i]) : i \in 1..Len(es)}
        found(q) == HasNode(S, q.from_type, q.from) /\ HasNode(S, q.to_type, q.to)
        same_file(q, r) ==
            q.type = r.type /\ q.from_type = r.from_type /\ q.to_type = r.to_type
        copied == {r \in rows : \A q \in rows : same_file(q, r) => found(q)}
    IN [S EXCEPT !.edges = @ \cup copied]

\* whether a COPY of bulk_insert_relationships_via_csv returns an error: a
\* staged row names an endpoint that is not in its node table
rel_copy_failed(S, es) ==
    \E i \in 1..Len(es) :
        ~(/\ HasNode(S, edge_csv_row(es[i]).from_type, edge_csv_row(es[i]).from)
          /\ HasNode(S, edge_csv_row(es[i]).to_type, edge_csv_row(es[i]).to))

\* query_nodes: the Node built from a returned row
from_row(r) ==
    [name |-> r.name, type |-> r.type,
     language |-> IF r.language = "" THEN "Text" ELSE r.language,
     start_line |-> r.start_line, end_line |-> r.end_line, code |-> r.code,
     skeleton_code |-> << >>]

\* the rows n of MATCH (a {name})-[:CONTAINS]->(n)
contained(S, name) ==
    {r \in S.nodes : \E e \in S.edges :
        e.type = "contains" /\ e.from = name /\ e.to = r.name /\ e.to_type = r.type}

\* the rows n of MATCH (a {name})-[:CONTAINS*2]->(n)
contained2(S, name) ==
    {r \in S.nodes : \E m \in contained(S, name) : \E e \in S.edges :
        /\ e.type = "contains" /\ e.from = m.name /\ e.from_type = m.type
        /\ e.to = r.name /\ e.to_type = r.type}

\* query_nodes("MATCH (n) RETURN n"): a Node per row, its name the text of
\* the name property
query_nodes(S) == {from_row(r) : r \in S.nodes}

\* query_relationships("MATCH (a)-[e]->(b) RETURN a.name, b.name, e"): an
\* Edge per row, its endpoints built from the names of the row
query_relationships(S) ==
    {Edge(e.type, from_type_and_name(e.from_type, e.from),
          from_type_and_name(e.to_type, e.to), e.import, e.alias) : e \in S.edges}

NodeTypeRank(type) ==
    CASE type = "directory" -> 1 [] type = "file" -> 2 [] type = "interface" -> 3
      [] type = "class" -> 4 [] type = "function" -> 5 [] type = "othertype" -> 6
      [] OTHER -> 7

\* the row a lookup table keeps for a key several rows share: the one the
\* query returned last.  The store returns rows in no fixed order; last_high
\* tells which end of the rows comes last.
last_row(rows, last_high) ==
    IF last_high
    THEN CHOOSE r \in rows : \A q \in rows : NodeTypeRank(q.type) <= NodeTypeRank(r.type)
    ELSE CHOOSE r \in rows : \A q \in rows : NodeTypeRank(r.type) <= NodeTypeRank(q.type)

(***************************************************************************)
(* Resolution of the pending records                                       *)
(***************************************************************************)
references(func_node, type_node) == Edge("references", func_node, type_node, None, None)

\* a resolution that gives up at the first record it cannot resolve
RECURSIVE go_resolve_func_param_type_edges_until_unresolved(_, _, _, _)
go_resolve_func_param_type_edges_until_unresolved(S, nodes, func_param_types, last_high) ==
    IF func_param_types = << >> THEN << >>
    ELSE LET pt == Head(func_param_types)
             rows == IF pt.package_name = None THEN {}
                     ELSE {r \in contained2(S, unwrap(pt.package_name)) :
                              r.short_name = << to_lowercase(pt.type_name) >>}
         IN IF rows # {} /\ contains_key(nodes, pt.func)
            THEN << references(get(nodes, pt.func), from_row(last_row(rows, last_high))) >>
                 \o go_resolve_func_param_type_edges_until_unresolved(
                        S, nodes, Tail(func_param_types), last_high)
            ELSE << >>

\* go::Parser::resolve_func_param_type_edges: the types are looked up in the
\* store, two CONTAINS steps below the owning package
RECURSIVE go_resolve_func_param_type_edges(_, _, _, _)
go_resolve_func_param_type_edges(S, nodes, func_param_types, last_high) ==
    IF func_param_types = << >> THEN << >>
    ELSE LET pt == Head(func_param_types)
             rows == IF pt.package_name = None THEN {}
                     ELSE {r \in contained2(S, unwrap(pt.package_name)) :
                              r.short_name = << to_lowercase(pt.type_name) >>}
             rest == go_resolve_func_param_type_edges(S, nodes, Tail(func_param_types),
                                                      last_high)
         IN IF rows # {} /\ contains_key(nodes, pt.func)
            THEN << references(get(nodes, pt.func), from_row(last_row(rows, last_high))) >>
                 \o rest
            ELSE rest

\* typescript::Parser::resolve_func_param_type_edges: the type is the
\* accumulated node named <owner>:<type_name>
RECURSIVE ts_resolve_func_param_type_edges(_, _)
ts_resolve_func_param_type_edges(nodes, func_param_types) ==
    IF func_param_types = << >> THEN << >>
    ELSE LET pt == Head(func_param_types)
             type_node_name == SymName(unwrap(pt.package_name).path, << pt.type_name >>)
             rest == ts_resolve_func_param_type_edges(nodes, Tail(func_param_types))
         IN IF /\ contains_key(nodes, pt.func) /\ pt.package_name # None
               /\ contains_key(nodes, type_node_name)
            THEN << references(get(nodes, pt.func), get(nodes, type_node_name)) >> \o rest
            ELSE rest

\* a lookup in the store by short name alone, under any owner
RECURSIVE ts_resolve_func_param_type_edges_any_owner(_, _, _, _)
ts_resolve_func_param_type_edges_any_owner(S, nodes, func_param_types, last_high) ==
    IF func_param_types = << >> THEN << >>
    ELSE LET pt == Head(func_param_types)
             rows == {r \in S.nodes : r.short_name = << to_lowercase(pt.type_name) >>}
             rest == ts_resolve_func_param_type_edges_any_owner(
                         S, nodes, Tail(func_param_types), last_high)
         IN IF rows # {} /\ contains_key(nodes, pt.func)
            THEN << references(get(nodes, pt.func), from_row(last_row(rows, last_high))) >>
                 \o rest
            ELSE rest

\* typescript::Parser::resolve_func_param_type_edges_from_db: the types are
\* looked up in the store, one CONTAINS step below the owning file
RECURSIVE ts_resolve_func_param_type_edges_from_db(_, _, _, _)
ts_resolve_func_param_type_edges_from_db(S, nodes, func_param_types, last_high) ==
    IF func_param_types = << >> THEN << >>
    ELSE LET pt == Head(func_param_types)
             rows == IF pt.package_name = None THEN {}
                     ELSE {r \in contained(S, unwrap(pt.package_name)) :
                              r.short_name = << to_lowercase(pt.type_name) >>}
             rest == ts_resolve_func_param_type_edges_from_db(
                         S, nodes, Tail(func_param_types), last_high)
         IN IF rows # {} /\ contains_key(nodes, pt.func)
            THEN << references(get(nodes, pt.func), from_row(last_row(rows, last_high))) >>
                 \o rest
            ELSE rest

\* the records of the functions of one language
RECURSIVE of_language(_, _)
of_language(func_param_types, language) ==
    IF func_param_types = << >> THEN << >>
    ELSE IF from_path(Head(func_param_types).func.path) = language
    THEN << Head(func_param_types) >> \o of_language(Tail(func_param_types), language)
    ELSE of_language(Tail(func_param_types), language)

\* resolve_pending_edges: the import pass over the accumulated nodes, then
\* the parameter types, in bulk mode or against the store
resolve_pending_edges(S, nodes, pending_imports, func_param_types, bulk, last_high) ==
    resolve_pending_imports(nodes, pending_imports)
    \o (IF bulk
        THEN ts_resolve_func_param_type_edges(
                 nodes, of_language(func_param_types, "TypeScript"))
        ELSE ts_resolve_func_param_type_edges_from_db(
                 S, nodes, of_language(func_param_types, "TypeScript"), last_high))
    \o go_resolve_func_param_type_edges(S, nodes, of_language(func_param_types, "Go"),
                                        last_high)

(***************************************************************************)
(* The orchestrator, codegraph::CodeGraph.  An outcome of a call is the    *)
(* store it leaves, whether it returned ok, and the kind of its error.     *)
(***************************************************************************)
FileSteps == 6

RepoSteps == 4

Outcome(S, error) == [store |-> S, ok |-> error = "", error |-> error]

names_of(nodes) == {nodes[i].name : i \in 1..Len(nodes)}

\* step 1 of the file branch: the names of the nodes CONTAINS*1..2 below the
\* node named rel
old_names(S, rel) == {r.name : r \in contained(S, rel) \cup contained2(S, rel)}

\* MATCH (a)-[e]->() WHERE a.name IN [..] DELETE e
delete_outgoing(S, names) == [S EXCEPT !.edges = {e \in @ : e.from \notin names}]

\* a clean that leaves the store directory in place
clean_keep(S) == S

\* clean(delete = true): the store directory is removed
clean_delete(S) == EmptyStore

\* the Snippet assembled from a row of the parameter-type query
Snippet(typ) ==
    [path |-> typ.name.path, start_line |-> typ.start_line, end_line |-> typ.end_line,
     content |-> typ.code]

\* the rows of a query whose WHERE clause admits the first and the last line
\* of the function
funcs_at_inclusive(S, rel, line) ==
    {func \in contained(S, rel) \cup contained2(S, rel) :
        func.start_line <= line /\ func.end_line >= line}

\* the rows func of MATCH (file {name: rel}) MATCH (file)-[:CONTAINS*1..2]->(func)
\* WHERE func.start_line < line AND func.end_line > line
funcs_at(S, rel, line) ==
    {func \in contained(S, rel) \cup contained2(S, rel) :
        func.start_line < line /\ func.end_line > line}

\* the rows typ of MATCH (func)-[:REFERENCES]->(typ), one per type
referenced_types(S, funcs) ==
    {typ \in S.nodes : \E func \in funcs : \E e \in S.edges :
        /\ e.type = "references"
        /\ e.from = func.name /\ e.from_type = func.type
        /\ e.to = typ.name /\ e.to_type = typ.type}

\* CodeGraph::get_func_param_types(file_path, line)
get_func_param_types(S, rel, line) ==
    {Snippet(typ) : typ \in referenced_types(S, funcs_at(S, rel, line))}

\* step k of the file branch after the query and the parse; r is what
\* parse_file returned and old the names the query returned
index_file_step(S, r, old, k, last_high) ==
    CASE k = 1 -> delete_nodes(S, old \ names_of(r.nodes))
      [] k = 2 -> delete_outgoing(S, {r.file_node.name} \cup old)
      [] k = 3 -> upsert_nodes(S, << r.file_node >>)
      [] k = 4 -> upsert_nodes(S, r.nodes)
      [] k = 5 -> upsert_relationships(S, r.edges)
      [] OTHER -> upsert_relationships(S,
                      resolve_pending_edges(S, << r.file_node >> \o r.nodes,
                          r.pending_imports, r.func_param_types, FALSE, last_high))

RECURSIVE index_file_steps(_, _, _, _, _, _)
index_file_steps(S, r, old, k, upto, last_high) ==
    IF k > upto THEN S
    ELSE index_file_steps(index_file_step(S, r, old, k, last_high), r, old, k + 1, upto,
                          last_high)

\* the file branch; a call dropped after step upto < FileSteps does not
\* return ok
index_file(S, r, upto, last_high) ==
    { Outcome(index_file_steps(S, r, old_names(S, r.file_node.name), 1, upto, last_high),
              IF upto = FileSteps THEN "" ELSE "Aborted") }

\* the bulk-mode resolution pass and the insertion of its edges
index_repo_resolve(S, w, last_high) ==
    bulk_insert_relationships_via_csv(S,
        resolve_pending_edges(S, w.nodes, w.pending_imports, w.func_param_types, TRUE,
                              last_high))

\* the repository branch from the insertion of the edges on
index_repo_edges(S, w, upto, last_high) ==
    IF upto = 3
    THEN Outcome(bulk_insert_relationships_via_csv(S, w.relationships), "Aborted")
    ELSE Outcome(index_repo_resolve(
                     bulk_insert_relationships_via_csv(S, w.relationships), w, last_high),
                 "")

\* the repository branch after the insertion of the nodes, o being its outcome
index_repo_nodes(o, w, upto, last_high) ==
    IF ~o.ok THEN Outcome(o.store, "StoreFailure")
    ELSE IF upto = 2 THEN Outcome(o.store, "Aborted")
    ELSE index_repo_edges(o.store, w, upto, last_high)

\* the repository branch; w is what the parser holds after the walk
index_repo(S, w, force, upto, last_high) ==
    IF upto = 1 THEN { Outcome(IF force THEN clean_delete(S) ELSE S, "Aborted") }
    ELSE { index_repo_nodes(o, w, upto, last_high) :
              o \in bulk_insert_nodes_via_csv(IF force THEN clean_delete(S) ELSE S,
                                              w.nodes) }

\* an index that wipes the store before it looks at the path
index_wipe_first(S, f, cfg, path, force, order, upto, last_high) ==
    IF path = RootPath
    THEN index_repo(S, traverse_directory(f, cfg, order), force, upto,
                    last_high)
    ELSE IF is_file(f, path)
    THEN index_file(S, parse_file(f, path, f.files[path]), upto, last_high)
    ELSE IF is_dir(f, path) THEN { Outcome(clean_delete(S), "Unsupported") }
    ELSE { Outcome(clean_delete(S), "InvalidPath") }

\* CodeGraph::index(path, force); order is the order of the walk
index(S, f, cfg, path, force, order, upto, last_high) ==
    IF path = RootPath
    THEN index_repo(S, traverse_directory(f, cfg, order), force, upto,
                    last_high)
    ELSE IF is_file(f, path)
    THEN index_file(S, parse_file(f, path, f.files[path]), upto, last_high)
    ELSE IF is_dir(f, path) THEN { Outcome(S, "Unsupported") }
    ELSE { Outcome(S, "InvalidPath") }

\* CodeGraph::index_dirty_file(path, content_bytes): the file branch with the
\* bytes handed to the parser; an adapter that opens the path itself panics
\* when no file is there
index_dirty_file(S, f, path, content_bytes, upto, last_high) ==
    IF reads_disk(path) /\ ~is_file(f, path) THEN { Outcome(S, "Panic") }
    ELSE index_file(S, parse_file(f, path, content_bytes), upto, last_high)

(***************************************************************************)
(* The facade driven directly, as the tests of db.rs drive it             *)
(***************************************************************************)
MaxDbOps == 4

F1 == << <<"a", "go">> >>

DbNodeUniverse ==
    { from_type_and_name("directory", RootName),
      from_type_and_name("file", PathName(F1)),
      [from_type_and_name("class", SymName(F1, <<"T">>)) EXCEPT !.language = "Go", !.code = "c1"],
      [from_type_and_name("interface", SymName(F1, <<"T">>)) EXCEPT !.language = "Go", !.code = "c2"],
      [from_type_and_name("function", SymName(F1, <<"T", "m">>)) EXCEPT !.language = "Go", !.end_line = 2] }

DbEdgeUniverse ==
    { Edge("contains", a, b, None, None) : a \in DbNodeUniverse, b \in DbNodeUniverse }
    \cup { Edge("imports", a, b, Some(Text("T")), al) :
              a \in {n \in DbNodeUniverse : n.type = "file"},
              b \in {n \in DbNodeUniverse : n.type = "class"}, al \in {None, Some(Text("U"))} }

NoPrev == [op |-> "none", path |-> << >>, force |-> FALSE, ok |-> TRUE]

NoOp ==
    [op |-> "none", path |-> << >>, names |-> {}, bytes |-> << >>, force |-> FALSE,
     ok |-> TRUE, error |-> "", nodes |-> {}, edges |-> {}, upto |-> 0,
     last_high |-> FALSE, dropped |-> FALSE, delete |-> FALSE, failed |-> FALSE,
     line |-> 0, result |-> {}, prev |-> NoPrev]

Record(op, S) == [NoOp EXCEPT !.op = op, !.nodes = S.nodes, !.edges = S.edges]

NoFs == [files |-> << >>, dirs |-> {}, gomod |-> None, unreadable |-> {}]

\* ParserConfig::default() with the given ignore patterns
Config(ignore_patterns) ==
    [ignore_patterns |-> ignore_patterns, continue_on_error |-> FALSE]

NoParse ==
    [nodes |-> << >>, relationships |-> << >>, pending_imports |-> << >>,
     func_param_types |-> << >>, error |-> ""]

InitDb ==
    /\ fs = NoFs
    /\ config = Config(<< >>)
    /\ initialized = FALSE
    /\ db_dir = FALSE
    /\ db_nodes = {}
    /\ db_edges = {}
    /\ parsed = NoParse
    /\ last = NoOp
    /\ steps = 0

DbUpsertNodes ==
    \E n \in DbNodeUniverse :
        /\ steps < MaxDbOps
        /\ LET S == upsert_nodes(Store, <<n>>) IN
           /\ db_nodes' = S.nodes
           /\ db_edges' = S.edges
        /\ initialized' = TRUE
        /\ db_dir' = TRUE
        /\ last' = Record("upsert_nodes", Store)
        /\ steps' = steps + 1
        /\ UNCHANGED <<fs, config, parsed>>

DbUpsertRelationships ==
    \E e \in DbEdgeUniverse :
        /\ steps < MaxDbOps
        /\ LET S == upsert_relationships(Store, <<e>>) IN
           /\ db_nodes' = S.nodes
           /\ db_edges' = S.edges
        /\ initialized' = TRUE
        /\ db_dir' = TRUE
        /\ last' = Record("upsert_relationships", Store)
        /\ steps' = steps + 1
        /\ UNCHANGED <<fs, config, parsed>>

DbDeleteNodes ==
    \E names \in SUBSET {n.name : n \in DbNodeUniverse} :
        /\ steps < MaxDbOps
        /\ LET S == delete_nodes(Store, names) IN
           /\ db_nodes' = S.nodes
           /\ db_edges' = S.edges
        /\ initialized' = (initialized \/ names # {})
        /\ db_dir' = (db_dir \/ names # {})
        /\ last' = [Record("delete_nodes", Store) EXCEPT !.names = names]
        /\ steps' = steps + 1
        /\ UNCHANGED <<fs, config, parsed>>

DbClean ==
    /\ steps < MaxDbOps
    /\ LET S == clean(Store, initialized) IN
       /\ db_nodes' = S.nodes
       /\ db_edges' = S.edges
    /\ last' = Record("clean", Store)
    /\ steps' = steps + 1
    /\ UNCHANGED <<fs, config, initialized, db_dir, parsed>>

\* bulk_insert_nodes_via_csv: the error of a failing COPY is returned with `?`
DbBulkInsertNodes ==
    \E n1 \in DbNodeUniverse : \E n2 \in DbNodeUniverse :
    \E o \in bulk_insert_nodes_via_csv(Store, <<n1, n2>>) :
        /\ steps < MaxDbOps
        /\ n1 # n2
        /\ db_nodes' = o.store.nodes
        /\ db_edges' = o.store.edges
        /\ initialized' = TRUE
        /\ db_dir' = TRUE
        /\ last' = [Record("bulk_insert_nodes", Store) EXCEPT
                       !.failed = ~o.ok, !.ok = o.ok,
                       !.error = IF o.ok THEN "" ELSE "StoreFailure"]
        /\ steps' = steps + 1
        /\ UNCHANGED <<fs, config, parsed>>

\* bulk_insert_relationships_via_csv: the error of a failing COPY is printed
\* and the call returns Ok(())
DbBulkInsertRelationships ==
    \E e \in DbEdgeUniverse :
        /\ steps < MaxDbOps
        /\ LET S == bulk_insert_relationships_via_csv(Store, <<e>>) IN
           /\ db_nodes' = S.nodes
           /\ db_edges' = S.edges
        /\ initialized' = TRUE
        /\ db_dir' = TRUE
        /\ last' = [Record("bulk_insert_relationships", Store) EXCEPT
                       !.failed = rel_copy_failed(Store, <<e>>)]
        /\ steps' = steps + 1
        /\ UNCHANGED <<fs, config, parsed>>

\* clean(delete = true): the store directory is removed, and the next
\* operation opens a new database there
DbCleanDelete ==
    /\ steps < MaxDbOps
    /\ LET S == clean_delete(Store) IN
       /\ db_nodes' = S.nodes
       /\ db_edges' = S.edges
    /\ initialized' = FALSE
    /\ db_dir' = FALSE
    /\ last' = [Record("clean", Store) EXCEPT !.delete = TRUE]
    /\ steps' = steps + 1
    /\ UNCHANGED <<fs, config, parsed>>

\* Database::new(db_path) on the path of a store an earlier instance wrote
DbReopen ==
    /\ steps < MaxDbOps
    /\ initialized
    /\ initialized' = FALSE
    /\ last' = Record("new", Store)
    /\ steps' = steps + 1
    /\ UNCHANGED <<fs, config, db_dir, db_nodes, db_edges, parsed>>

NextDb ==
    \/ DbUpsertNodes
    \/ DbUpsertRelationships
    \/ DbBulkInsertNodes
    \/ DbBulkInsertRelationships
    \/ DbDeleteNodes
    \/ DbClean
    \/ DbCleanDelete
    \/ DbReopen

SpecDb == InitDb /\ [][NextDb]_vars

(***************************************************************************)
(* The parser run over a repository: the walker, the adapters and the      *)
(* in-memory resolution of imports                                         *)
(***************************************************************************)
MaxPatterns == 2

PDir == << <<"p">> >>

QDir == << <<"q">> >>

AGo == << <<"p">>, <<"a", "go">> >>

BGo == << <<"b", "go">> >>

TTs == << <<"t", "ts">> >>

MTs == << <<"m", "ts">> >>

XTs == << <<"x", "ts">> >>

RMd == << <<"r", "md">> >>

RepoModule == << <<"repo">> >>

\* the matches tree-sitter yields for a declaration on line l
MGoImport(path, alias) ==
    [NoMatch EXCEPT !.pattern = "Import", !.path = path, !.alias = alias]

MTsImport(named_name, named_alias, default_alias, namespace_alias, up, path) ==
    [NoMatch EXCEPT !.pattern = "Import", !.named_name = named_name,
                    !.named_alias = named_alias, !.default_alias = default_alias,
                    !.namespace_alias = namespace_alias, !.relative = TRUE,
                    !.up = up, !.path = path]

MType(pattern, name, code, l) ==
    [NoMatch EXCEPT !.pattern = pattern, !.name = name, !.code = code,
                    !.start_line = l, !.end_line = l + 2, !.body = (pattern = "Class")]

MFunc(pattern, name, code, l, owner, param_types) ==
    [NoMatch EXCEPT !.pattern = pattern, !.name = name, !.code = code,
                    !.start_line = l, !.end_line = l + 2, !.body = TRUE,
                    !.first_return_type = IF pattern = "Function" THEN owner ELSE None,
                    !.receiver_type = IF pattern = "Method" THEN owner ELSE None,
                    !.parent_class = IF pattern = "Method" THEN owner ELSE None,
                    !.param_types = param_types]

\* import "repo/q"; type T struct{}; func (t *T) m(x T) {}
GoA1 ==
    << MGoImport(RepoModule \o QDir, None),
       MType("Class", "T", "type T struct", 2),
       MFunc("Method", "m", "func (t *T) m(x T)", 5, Some("T"), << <<"T">> >>) >>

\* func f(x *T) {}
GoA2 == << MFunc("Function", "f", "func f(x *T)", 1, None, << <<"*", "T">> >>) >>

\* func f(x T, y U) {}: one match for each parameter
GoA3 ==
    << MFunc("Function", "f", "func f(x T, y U)", 1, None, << <<"T">> >>),
       MFunc("Function", "f", "func f(x T, y U)", 1, None, << <<"U">> >>) >>

\* func (t *T) m() {}; func h() T {}; type T struct{}
GoA4 ==
    << MFunc("Method", "m", "func (t *T) m()", 0, Some("T"), << >>),
       MFunc("Function", "h", "func h() T", 3, Some("T"), << >>),
       MType("Class", "T", "type T struct", 6) >>

\* type T struct{}; func NewT() *T {}; func g() U {}
GoA5 ==
    << MType("Class", "T", "type T struct", 0),
       MFunc("Function", "NewT", "func NewT() *T", 3, Some("T"), << >>),
       MFunc("Function", "g", "func g() U", 6, Some("U"), << >>) >>

\* type I interface{}; func NewI() I {}
GoA6 ==
    << MType("Interface", "I", "type I interface", 0),
       MFunc("Function", "NewI", "func NewI() I", 3, Some("I"), << >>) >>

\* import "repo/p"; func g(x p.T) {}
GoB1 ==
    << MGoImport(RepoModule \o PDir, None),
       MFunc("Function", "g", "func g(x p.T)", 3, None, << <<"p", ".", "T">> >>) >>

\* class T { m(x: string) {} }
TsT1 ==
    << MType("Class", "T", "class T", 0),
       MFunc("Method", "m", "m(x: string)", 1, Some("T"), << <<"string">> >>) >>

\* interface T {}; interface T {}
TsT2 ==
    << MType("Interface", "T", "interface T 1", 0),
       MType("Interface", "T", "interface T 2", 3) >>

\* import { T } from "./t"; function f(x: T) {}
TsM1 ==
    << MTsImport(Some(Text("T")), None, None, None, 0, << <<"t">> >>),
       MFunc("Function", "f", "function f(x: T)", 2, None, << <<"T">> >>) >>

\* import * as ns from "./t"; import { U as V } from "./t"
TsM2 ==
    << MTsImport(None, None, None, Some(Text("ns")), 0, << <<"t">> >>),
       MTsImport(Some(Text("U")), Some(Text("V")), None, None, 0, << <<"t">> >>) >>

Pattern(neg, kind, arg) == [neg |-> neg, kind |-> kind, arg |-> arg]

PatternUniverse ==
    { Pattern(FALSE, "star", << >>), Pattern(TRUE, "ext", "go"),
      Pattern(FALSE, "lit", PDir), Pattern(FALSE, "under", PDir) }

ConfigUniverse ==
    { [ignore_patterns |-> ps, continue_on_error |-> c] :
        ps \in UNION { [1..n -> PatternUniverse] : n \in 0..MaxPatterns },
        c \in BOOLEAN }

\* a file system holding the files of the pairs <<path, text>> whose text is
\* not empty
MkFs(pairs, dirs) ==
    LET present == {x \in pairs : x[2] # << >>} IN
    [files |-> [p \in {x[1] : x \in present} |-> (CHOOSE x \in present : x[1] = p)[2]],
     dirs |-> dirs, gomod |-> Some(RepoModule), unreadable |-> {}]

\* the text of a file no adapter parses
Prose == << [NoMatch EXCEPT !.code = "readme"] >>

\* repositories holding a file of no supported language
TextFsUniverse ==
    { MkFs({<<RMd, Prose>>, <<TTs, t>>}, d) : t \in {<< >>, TsT1}, d \in {{}, {PDir}} }

\* repositories holding a directory that cannot be listed or a file that
\* cannot be read
FailFsUniverse ==
    { [MkFs({<<AGo, GoA2>>, <<TTs, TsT1>>}, {PDir}) EXCEPT !.unreadable = u] :
        u \in {{PDir}, {AGo}} }

ParseFsUniverse ==
    { MkFs({<<AGo, a>>, <<BGo, b>>, <<TTs, t>>, <<MTs, m>>}, d) :
        a \in {<< >>, GoA1, GoA2, GoA3, GoA4, GoA5, GoA6}, b \in {<< >>, GoB1},
        t \in {<< >>, TsT1, TsT2}, m \in {<< >>, TsM1, TsM2},
        d \in {{PDir}} }
    \cup TextFsUniverse
    \cup FailFsUniverse

InitParse ==
    /\ fs \in ParseFsUniverse
    /\ config \in ConfigUniverse
    /\ initialized = FALSE
    /\ db_dir = FALSE
    /\ db_nodes = {}
    /\ db_edges = {}
    /\ parsed = NoParse
    /\ last = NoOp
    /\ steps = 0

\* what the coordinator holds after a walk
parse_result(w) ==
    [nodes |-> w.nodes, relationships |-> w.relationships,
     pending_imports |-> w.pending_imports, func_param_types |-> w.func_param_types,
     error |-> w.error]

\* Parser::parse on the repository root
Parse ==
    \E order \in WalkOrders(fs, Children(fs, RootPath)) :
        /\ steps = 0
        /\ parsed' = parse_result(traverse_directory(fs, config, order))
        /\ last' = [NoOp EXCEPT !.op = "parse", !.ok = (parsed'.error = ""),
                                !.error = parsed'.error]
        /\ steps' = 1
        /\ UNCHANGED <<fs, config, initialized, db_dir, db_nodes, db_edges>>

\* the import pass over the accumulated nodes, its edges joining the graph
ResolvePendingImports ==
    /\ steps = 1
    /\ parsed.error = ""
    /\ parsed' = [parsed EXCEPT !.relationships =
                     @ \o resolve_pending_imports(parsed.nodes, parsed.pending_imports)]
    /\ last' = [NoOp EXCEPT !.op = "resolve_pending_imports",
                            !.upto = Len(parsed.relationships)]
    /\ steps' = 2
    /\ UNCHANGED <<fs, config, initialized, db_dir, db_nodes, db_edges>>

NextParse == Parse \/ ResolvePendingImports

SpecParse == InitParse /\ [][NextParse]_vars

(***************************************************************************)
(* The orchestrator driven over a repository that is edited between calls  *)
(***************************************************************************)
MaxOps == 3

\* interface T {}
TsT3 == << MType("Interface", "T", "interface T", 0) >>

\* function h() {}
TsT0 == << MFunc("Function", "h", "function h()", 0, None, << >>) >>

FsUniverse ==
    { MkFs({<<AGo, a>>, <<TTs, t>>, <<MTs, m>>}, {PDir}) :
        a \in {<< >>, GoA1}, t \in {TsT1}, m \in {TsM1} }

\* the texts an edit or an editor buffer gives a file
Texts(path) ==
    CASE path = TTs -> {TsT0, TsT1, TsT3}
      [] path = AGo -> {GoA1, GoA2}
      [] OTHER -> {}

IndexPaths == {RootPath, TTs, MTs, AGo, PDir, XTs}

DirtyPaths == {TTs, AGo}

Init ==
    /\ fs \in FsUniverse
    /\ config = Config(<< >>)
    /\ initialized = FALSE
    /\ db_dir = FALSE
    /\ db_nodes = {}
    /\ db_edges = {}
    /\ parsed = NoParse
    /\ last = NoOp
    /\ steps = 0

\* the file system after the file at path is given the text
write(f, path, text) ==
    [f EXCEPT !.files =
        [q \in DOMAIN @ \cup {path} |-> IF q = path THEN text ELSE @[q]]]

Prev == [op |-> last.op, path |-> last.path, force |-> last.force, ok |-> last.ok]

\* what a call of the orchestrator leaves behind
Called(op, path, bytes, force, upto, last_high, o) ==
    /\ db_nodes' = o.store.nodes
    /\ db_edges' = o.store.edges
    /\ initialized' = TRUE
    /\ db_dir' = CASE o.error \in {"Unsupported", "InvalidPath"} -> db_dir
                 [] path = RootPath /\ upto = 1 -> db_dir /\ ~force
                 [] OTHER -> TRUE
    /\ last' = [NoOp EXCEPT !.op = op, !.path = path, !.bytes = bytes, !.force = force,
                            !.ok = o.ok, !.error = o.error, !.nodes = db_nodes,
                            !.edges = db_edges, !.upto = upto, !.last_high = last_high,
                            !.dropped = last.dropped \/ o.error = "Aborted",
                            !.prev = Prev]
    /\ steps' = steps + 1
    /\ UNCHANGED <<fs, config, parsed>>

Orders(path) ==
    IF path = RootPath THEN WalkOrders(fs, Children(fs, RootPath)) ELSE { << >> }

\* an edit of a file of the repository
WriteFile ==
    \E path \in DirtyPaths : \E text \in Texts(path) :
        /\ steps < MaxOps
        /\ ~(is_file(fs, path) /\ fs.files[path] = text)
        /\ fs' = write(fs, path, text)
        /\ last' = [NoOp EXCEPT !.op = "write", !.path = path, !.nodes = db_nodes,
                                !.edges = db_edges, !.dropped = last.dropped,
                                !.prev = Prev]
        /\ steps' = steps + 1
        /\ UNCHANGED <<config, initialized, db_dir, db_nodes, db_edges, parsed>>

Index ==
    \E path \in IndexPaths :
    \E force \in IF path \in {RootPath, PDir, XTs} THEN BOOLEAN ELSE {FALSE} :
    \E order \in Orders(path) : \E last_high \in BOOLEAN :
        /\ steps < MaxOps
        /\ \E o \in index(Store, fs, config, path, force, order, FileSteps, last_high) :
              Called("index", path, << >>, force, FileSteps, last_high, o)

\* an index the host drops after one of its steps
IndexAborted ==
    \E path \in {RootPath, TTs} : \E force \in {path = RootPath} :
    \E upto \in 1..(IF path = RootPath THEN RepoSteps - 1 ELSE FileSteps - 1) :
    \E order \in Orders(path) :
        /\ steps < MaxOps
        /\ \E o \in index(Store, fs, config, path, force, order, upto, FALSE) :
              Called("index_aborted", path, << >>, force, upto, FALSE, o)

IndexDirtyFile ==
    \E path \in DirtyPaths : \E bytes \in Texts(path) : \E last_high \in BOOLEAN :
        /\ steps < MaxOps
        /\ \E o \in index_dirty_file(Store, fs, path, bytes, FileSteps, last_high) :
              Called("index_dirty_file", path, bytes, FALSE, FileSteps, last_high, o)

IndexDirtyFileAborted ==
    \E path \in {TTs} : \E bytes \in {TsT3} : \E upto \in 1..(FileSteps - 1) :
        /\ steps < MaxOps
        /\ \E o \in index_dirty_file(Store, fs, path, bytes, upto, FALSE) :
              Called("index_dirty_file_aborted", path, bytes, FALSE, upto, FALSE, o)

Next == WriteFile \/ Index \/ IndexAborted \/ IndexDirtyFile \/ IndexDirtyFileAborted

Spec == Init /\ [][Next]_vars

(***************************************************************************)
(* The orchestrator and the store read back after indexing                 *)
(***************************************************************************)
QueryPaths == {MTs, AGo}

QueryLines == 2..6

\* what a read of the store leaves behind
Read(op, path, line, result) ==
    /\ steps < MaxOps
    /\ initialized' = TRUE
    /\ db_dir' = TRUE
    /\ last' = [NoOp EXCEPT !.op = op, !.path = path, !.line = line, !.result = result,
                            !.nodes = db_nodes, !.edges = db_edges, !.prev = Prev]
    /\ steps' = steps + 1
    /\ UNCHANGED <<fs, config, db_nodes, db_edges, parsed>>

QueryNodes == Read("query_nodes", << >>, 0, query_nodes(Store))

QueryRelationships == Read("query_relationships", << >>, 0, query_relationships(Store))

GetFuncParamTypes ==
    \E path \in QueryPaths : \E line \in QueryLines :
        Read("get_func_param_types", path, line,
             get_func_param_types(Store, PathName(path), line))

NextQuery ==
    \/ Index
    \/ IndexDirtyFile
    \/ QueryNodes
    \/ QueryRelationships
    \/ GetFuncParamTypes

SpecQuery == Init /\ [][NextQuery]_vars

(***************************************************************************)
(* Properties of the parsed graph                                          *)
(***************************************************************************)
Incoming(type, name) ==
    {j \in 1..Len(parsed.relationships) :
        parsed.relationships[j].type = type /\ parsed.relationships[j].to.name = name}

InGraph(name) == contains_key(parsed.nodes, name)

\* C1: after a parse of the repository every node but the root has exactly
\* one incoming CONTAINS edge and the root has none.
C1_OneIncomingContains ==
    last.op = "parse" =>
        \A i \in 1..Len(parsed.nodes) :
            Cardinality(Incoming("contains", parsed.nodes[i].name))
                = IF parsed.nodes[i].name = RootName THEN 0 ELSE 1

\* C8: after the parse and the import pass both endpoints of every IMPORTS
\* edge are nodes of the graph.
C8_ImportsEndpointsExist ==
    last.op = "resolve_pending_imports" =>
        \A j \in 1..Len(parsed.relationships) :
            parsed.relationships[j].type = "imports" =>
                /\ InGraph(parsed.relationships[j].from.name)
                /\ InGraph(parsed.relationships[j].to.name)

(***************************************************************************)
(* Properties of the orchestrator                                          *)
(***************************************************************************)
PreStore == [nodes |-> last.nodes, edges |-> last.edges]

IndexedFile == last.op = "index" /\ last.ok /\ is_file(fs, last.path)

\* the names the parse of the file at last.path yields
NewNames == names_of(parse_file(fs, last.path, fs.files[last.path]).nodes)

OldNames == old_names(PreStore, PathName(last.path))

\* the part of a store that belongs to the file at path
Subgraph(S, path) ==
    [nodes |-> {r \in S.nodes : r.name.path = path},
     edges |-> {e \in S.edges : e.from.path = path}]

\* the stores index into an empty store leaves for the repository f
FromEmpty(f, cfg, order) ==
    {o.store : o \in index(EmptyStore, f, cfg, RootPath, FALSE, order,
                           FileSteps, FALSE)}

\* the stores index(path) leaves when started on S
AfterIndex(S, f, cfg, path, last_high) ==
    {o.store : o \in index(S, f, cfg, path, FALSE, << >>, FileSteps,
                           last_high)}

\* C2: as long as every call ran to its end, no two nodes of the store have
\* the same name.
C2_NamesUnique ==
    ~last.dropped => \A r \in db_nodes : \A q \in db_nodes : r.name = q.name => r = q

\* C3: after index(file) every node that was CONTAINS*1..2 below the file
\* node before the call and is not in the new parse is gone from the store,
\* and so is every edge from or to such a node.
C3_StaleNodesGone ==
    IndexedFile =>
        \A n \in OldNames \ NewNames :
            /\ \A r \in db_nodes : r.name # n
            /\ \A e \in db_edges : e.from # n /\ e.to # n

\* an index(file) that removed a stale definition another file pointed at
C3_Witness ==
    /\ IndexedFile
    /\ \E e \in last.edges :
          /\ e.to \in OldNames \ NewNames
          /\ e.from.path # last.path

\* C4: index(file) neither adds, removes nor alters a node outside the
\* file's subgraph, and keeps as it was every edge that does not start at the
\* file node or one of its previous definitions and touches no deleted node.
C4_FramePreserved ==
    IndexedFile =>
        /\ \A r \in last.nodes :
              (r.name.path # last.path /\ r.name \notin OldNames) => r \in db_nodes
        /\ \A r \in db_nodes : r.name.path # last.path => r \in last.nodes
        /\ \A e \in last.edges :
              (/\ e.from \notin {PathName(last.path)} \cup OldNames
               /\ e.to \notin OldNames \ NewNames) => e \in db_edges

\* an index(file) that deleted a definition of the file while an edge from
\* another file pointed at a definition that stayed
C4_Witness ==
    /\ IndexedFile
    /\ OldNames \ NewNames # {}
    /\ \E e \in last.edges :
          /\ e.from.path # last.path
          /\ e.to \in OldNames \cap NewNames
          /\ e \in db_edges

\* C5: index(file) right after a completed index of the repository leaves
\* the nodes of the file and the edges that start at them as they were.
C5_IndexFileIdempotent ==
    (/\ IndexedFile
     /\ last.prev.op = "index" /\ last.prev.ok /\ last.prev.path = RootPath) =>
        Subgraph(Store, last.path) = Subgraph(PreStore, last.path)

C9_BadPathLeavesStore ==
    (last.op = "index" /\ last.path # RootPath /\ ~is_file(fs, last.path)) =>
        /\ ~last.ok
        /\ last.error = IF is_dir(fs, last.path) THEN "Unsupported" ELSE "InvalidPath"
        /\ db_nodes = last.nodes /\ db_edges = last.edges

\* a forced index of a directory below the root on a store that holds nodes
C9_Witness ==
    /\ last.op = "index" /\ last.path = PDir /\ last.force
    /\ last.error = "Unsupported"
    /\ db_nodes # {}

\* C10: index_dirty_file(path, bytes) leaves the store index(path) would
\* leave, started on the same store, were bytes the text of the file on disk.
C10_DirtyEqualsIndex ==
    last.op = "index_dirty_file" =>
        /\ last.ok
        /\ Store \in AfterIndex(PreStore, write(fs, last.path, last.bytes), config,
                                last.path, last.last_high)

(***************************************************************************)
(* Properties of the facade                                                *)
(***************************************************************************)
\* C7: after delete_nodes(N) returns ok no node named in N is in the store
\* and no edge has an endpoint named in N; with N empty the store is what it
\* was before the call.
C7_DeleteNodesDetaches ==
    (last.op = "delete_nodes" /\ last.ok) =>
        /\ \A r \in db_nodes : r.name \notin last.names
        /\ \A e \in db_edges : e.from \notin last.names /\ e.to \notin last.names
        /\ (last.names = {} => db_nodes = last.nodes /\ db_edges = last.edges)

\* a delete_nodes call that removed a node together with an edge touching it
C7_Witness ==
    /\ last.op = "delete_nodes" /\ last.ok
    /\ \E r \in last.nodes : r.name \in last.names
    /\ \E e \in last.edges : e.to \in last.names /\ e.from \notin last.names
    /\ db_nodes # {}

(***************************************************************************)
(* Properties of index_dirty_file on an empty store                        *)
(***************************************************************************)
\* the names of the file node and of the definitions found in the bytes
DirtyNames ==
    {PathName(last.path)}
        \cup names_of(parse_file(write(fs, last.path, last.bytes), last.path,
                                  last.bytes).nodes)

\* C11: index_dirty_file(path, bytes) on an empty store leaves exactly the
\* file node and the nodes of the definitions found in the bytes; no root and
\* no other directory node is created.
C11_DirtyOnEmptyStore ==
    (last.op = "index_dirty_file" /\ last.nodes = {} /\ last.edges = {}) =>
        /\ last.ok
        /\ {r.name : r \in db_nodes} = DirtyNames
        /\ \A r \in db_nodes : r.type # "directory"

\* C12: after clean(delete = false) returns ok the store holds no node and
\* no edge, and after clean(delete = true) returns ok the store directory no
\* longer exists, whether or not the facade instance had opened the store.
C12_CleanEmptiesStore ==
    (last.op = "clean" /\ last.ok) =>
        IF last.delete THEN ~db_dir ELSE db_nodes = {} /\ db_edges = {}

\* C13: whenever a store statement fails during a bulk insert, an upsert, a
\* delete or a query, the operation returns an error carrying the failure; no
\* store failure ends in an ok result.
C13_StoreFailureIsReturned ==
    last.failed => (~last.ok /\ last.error = "StoreFailure")

(***************************************************************************)
(* Properties of the store read back                                       *)
(***************************************************************************)
\* C14: the sentinel "." stays inside the bulk staging files: after any
\* sequence of bulk and upsert indexing no node name, edge endpoint or
\* snippet path read back equals ".", and a root directory in the store is
\* read back under the name "".
C14_SentinelNotLeaked ==
    /\ last.op = "query_nodes" =>
          /\ \A n \in last.result : n.name # DotName
          /\ (\E r \in db_nodes : r.type = "directory" /\ r.name \in {RootName, DotName})
                 => \E n \in last.result : n.type = "directory" /\ n.name = RootName
    /\ last.op = "query_relationships" =>
          \A e \in last.result : e.from.name # DotName /\ e.to.name # DotName
    /\ last.op = "get_func_param_types" =>
          \A sn \in last.result : sn.path # DotPath

\* a CONTAINS edge of the store from the node named a to the row r
ContainsEdge(a, r) ==
    \E e \in db_edges :
        e.type = "contains" /\ e.from = a /\ e.to = r.name /\ e.to_type = r.type

\* the row is one or two CONTAINS edges below the node named file
Below(file, r) ==
    \/ ContainsEdge(file, r)
    \/ \E mid \in db_nodes :
          /\ ContainsEdge(file, mid)
          /\ \E e \in db_edges :
                /\ e.type = "contains" /\ e.from = mid.name /\ e.from_type = mid.type
                /\ e.to = r.name /\ e.to_type = r.type

\* the row typ is the target of a REFERENCES edge from a function of the
\* queried file whose span strictly contains the queried line
TypeAtLine(typ) ==
    \E func \in db_nodes : \E e \in db_edges :
        /\ Below(PathName(last.path), func)
        /\ func.start_line < last.line /\ last.line < func.end_line
        /\ e.type = "references"
        /\ e.from = func.name /\ e.from_type = func.type
        /\ e.to = typ.name /\ e.to_type = typ.type

\* C15: get_func_param_types(file_path, line) returns one snippet per type
\* that is the target of a REFERENCES edge from a function one or two
\* CONTAINS edges below the file node whose span strictly contains the line;
\* a function that starts or ends on the line, and the functions of other
\* files, contribute no snippet.
C15_ParamTypesAtLine ==
    last.op = "get_func_param_types" =>
        /\ \A sn \in last.result :
              \E typ \in db_nodes : TypeAtLine(typ) /\ sn = Snippet(typ)
        /\ \A typ \in db_nodes :
              TypeAtLine(typ) =>
                  Cardinality({sn \in last.result : sn = Snippet(typ)}) = 1

\* a query on a line strictly inside a function that references a type, the
\* store also holding a function of another file that references a type
C15_Witness ==
    /\ last.op = "get_func_param_types"
    /\ last.result # {}
    /\ \E func \in db_nodes : \E e \in db_edges :
          /\ e.type = "references" /\ e.from = func.name
          /\ func.name.path # last.path

(***************************************************************************)
(* Properties of the walk                                                  *)
(***************************************************************************)
PositiveMatch(p) ==
    \E i \in 1..Len(config.ignore_patterns) :
        ~config.ignore_patterns[i].neg /\ glob_matches(config.ignore_patterns[i], p)

NegationMatch(p) ==
    \E i \in 1..Len(config.ignore_patterns) :
        config.ignore_patterns[i].neg /\ glob_matches(config.ignore_patterns[i], p)

\* the walk left nothing of the entry at p: no node of the path, no CONTAINS
\* edge ending at one, nothing an adapter returns for it
YieldsNothing(p) ==
    /\ \A n \in names_of(parsed.nodes) : n.path # p
    /\ \A i \in 1..Len(parsed.relationships) :
          parsed.relationships[i].type = "contains"
              => parsed.relationships[i].to.name.path # p
    /\ \A i \in 1..Len(parsed.pending_imports) : parsed.pending_imports[i].file.path # p

\* C16: during a walk a path that matches a non-negated ignore pattern and no
\* negation pattern yields no node, no CONTAINS edge and no adapter
\* invocation, and a path that matches both a non-negated pattern and a
\* negation pattern is admitted.
C16_IgnoredYieldsNothing ==
    steps >= 1 =>
        \A p \in Entries(fs) :
            /\ (PositiveMatch(p) /\ ~NegationMatch(p)) => YieldsNothing(p)
            /\ (PositiveMatch(p) /\ NegationMatch(p)) => InGraph(PathName(p))

\* the repository holds no file with a supported extension
NoSupportedFile == \A p \in DOMAIN fs.files : from_path(p) = "Text"

\* C17: parsing a repository that holds no file with a supported extension
\* (.go, .ts, .py) yields only the root node "".
C17_OnlyRootNode ==
    (steps >= 1 /\ NoSupportedFile) => names_of(parsed.nodes) = {RootName}

\* the walk meets a failing entry: a directory it cannot list, or a file it
\* admits and cannot read
FailingEntry(p) ==
    /\ p \in fs.unreadable
    /\ is_dir(fs, p) \/ ~should_skip(config.ignore_patterns, p)

\* the walk yields the entry, which does not fail and is not ignored
Admitted(p) ==
    /\ p \notin fs.unreadable
    /\ Parent(p) \notin fs.unreadable
    /\ ~should_skip(config.ignore_patterns, p)

\* C18: when an entry fails during the walk, with continue_on_error = true
\* the entry is skipped, every other admitted entry still yields its node and
\* its CONTAINS edge and the parse returns ok; with continue_on_error = false
\* the parse returns the error.
C18_ContinueOnError ==
    (last.op = "parse" /\ \E p \in Entries(fs) : FailingEntry(p)) =>
        IF config.continue_on_error
        THEN /\ last.ok
             /\ \A p \in Entries(fs) :
                   Admitted(p) => /\ InGraph(PathName(p))
                                  /\ Incoming("contains", PathName(p)) # {}
        ELSE ~last.ok /\ last.error = "WalkError"

\* the adapter of the file's language is invoked on a file it cannot read
AdapterCannotRead(p) ==
    /\ is_file(fs, p) /\ p \in fs.unreadable
    /\ from_path(p) # "Text"
    /\ ~should_skip(config.ignore_patterns, p)

\* C19: a language adapter never raises, neither by a panic nor by an error:
\* for a file it cannot read or parse it returns empty node, edge,
\* pending-import and parameter-type sets, so the walk goes on and the file
\* contributes its file node and nothing else.
C19_AdapterNeverRaises ==
    last.op = "parse" =>
        /\ last.error # "Panic"
        /\ \A p \in Entries(fs) :
              AdapterCannotRead(p) =>
                  /\ \A n \in names_of(parsed.nodes) : n.path = p => n = PathName(p)
                  /\ \A i \in 1..Len(parsed.pending_imports) :
                        parsed.pending_imports[i].file.path # p
                  /\ \A i \in 1..Len(parsed.func_param_types) :
                        parsed.func_param_types[i].func.path # p

\* the parameter type names a type an adapter records: not a builtin of the
\* language of the file, and not an inline func, struct or interface
NamedParamType(p, t) ==
    /\ t # << >>
    /\ IF from_path(p) = "Go"
       THEN ~is_go_builtin_type(t[Len(t)]) /\ Head(t) \notin {"func", "struct", "interface"}
       ELSE t[Len(t)] \notin ts_builtin_types

\* a parameter-type record of the function named name of the file at p
RecordedParamType(p, name, type_name) ==
    \E k \in 1..Len(parsed.func_param_types) :
        /\ parsed.func_param_types[k].func.path = p
        /\ parsed.func_param_types[k].func.sym # << >>
        /\ parsed.func_param_types[k].func.sym[Len(parsed.func_param_types[k].func.sym)] = name
        /\ parsed.func_param_types[k].type_name = type_name

\* every match of a function or method in the file at p has its parameter
\* types among the records
ParamTypesAggregated(p) ==
    \A i \in 1..Len(fs.files[p]) :
        fs.files[p][i].pattern \in {"Function", "Method"} =>
            \A j \in 1..Len(fs.files[p][i].param_types) :
                NamedParamType(p, fs.files[p][i].param_types[j]) =>
                    RecordedParamType(p, fs.files[p][i].name,
                        fs.files[p][i].param_types[j][Len(fs.files[p][i].param_types[j])])

\* C20: for every file F and every definition D inside F (interface, class,
\* function, method, enum, type alias) the edges of the adapter hold exactly
\* one CONTAINS edge ending at D, however many query matches there are for D,
\* while the parameter-type records of all matches for D are aggregated.
C20_OneContainsPerDefinition ==
    (last.op = "parse" /\ last.ok) =>
        /\ \A n \in names_of(parsed.nodes) :
              n.sym # << >> => Cardinality(Incoming("contains", n)) = 1
        /\ \A p \in DOMAIN fs.files :
              (Admitted(p) /\ from_path(p) \in {"Go", "TypeScript"})
                  => ParamTypesAggregated(p)

(***************************************************************************)
(* Properties of the order of the writes of an index call                  *)
(***************************************************************************)
IndexCall ==
    last.op \in {"index", "index_aborted", "index_dirty_file", "index_dirty_file_aborted"}

\* the edges the call has written so far
WrittenEdges == db_edges \ last.edges

\* the edges among them that a resolution pass produced
ResolvedEdges ==
    {e \in WrittenEdges :
        e.type = "references" \/ (e.type = "imports" /\ e.to_type # "directory")}

StoreNames == {r.name : r \in db_nodes}

\* the names, as the store keeps them, of the structural nodes of the call
CallNames ==
    IF last.path = RootPath
    THEN {csv_name(n) :
             n \in names_of(traverse_directory(fs, config,
                       CHOOSE order \in Orders(RootPath) : TRUE).nodes)}
    ELSE {PathName(last.path)}
             \cup names_of(parse_file(fs, last.path,
                               IF last.op \in {"index", "index_aborted"}
                               THEN fs.files[last.path]
                               ELSE last.bytes).nodes)

\* C21: within a single index call, completed or dropped after any of its
\* steps, every edge written has both of its endpoint nodes in the store, and
\* a resolved IMPORTS or REFERENCES edge is written only when all structural
\* nodes of the call are in the store.
C21_NodesBeforeEdges ==
    IndexCall =>
        /\ \A e \in WrittenEdges :
              HasNode(Store, e.from_type, e.from) /\ HasNode(Store, e.to_type, e.to)
        /\ ResolvedEdges # {} => CallNames \subseteq StoreNames

\* a call dropped after the structural edges were written and before the
\* resolution pass
C21_Witness ==
    /\ last.op = "index_aborted" /\ last.path = RootPath /\ last.upto = RepoSteps - 1
    /\ \E e \in WrittenEdges : e.type = "contains"
    /\ ResolvedEdges = {}

(***************************************************************************)
(* Properties of the re-parenting of Go functions and methods              *)
(***************************************************************************)
ParsedGoFiles ==
    {p \in DOMAIN fs.files : from_path(p) = "Go" /\ InGraph(PathName(p))}

\* the file at p declares, at any position, a type named t
Declares(p, t) ==
    \E j \in 1..Len(fs.files[p]) :
        fs.files[p][j].pattern \in {"Class", "Interface"} /\ fs.files[p][j].name = t

\* the file at p declares the struct named t before its i-th declaration
StructEarlier(p, t, i) ==
    \E j \in 1..(i - 1) :
        fs.files[p][j].pattern = "Class" /\ fs.files[p][j].name = t

\* the graph holds the node named name under a CONTAINS edge from the node
\* named parent
ContainedBy(parent, name) ==
    /\ InGraph(name)
    /\ \E j \in Incoming("contains", name) : parsed.relationships[j].from.name = parent

\* C22: every Go method is named <file>:<Type>.<Method> and contained by the
\* node of its receiver type, wherever in the file the type is declared.
C22_MethodUnderReceiver ==
    (last.op = "parse" /\ last.ok) =>
        \A p \in ParsedGoFiles : \A i \in 1..Len(fs.files[p]) :
            LET m == fs.files[p][i] IN
            (m.pattern = "Method" /\ m.receiver_type # None
                    /\ Declares(p, unwrap(m.receiver_type)))
                => ContainedBy(SymName(p, << unwrap(m.receiver_type) >>),
                               SymName(p, << unwrap(m.receiver_type), m.name >>))

\* C23: a top-level Go function is named <file>:<T>.<Func> and contained by
\* <file>:<T> exactly when its first return type T is a struct declared
\* earlier in the file; otherwise it is named <file>:<Func> and contained by
\* the file node.
C23_ConstructorUnderStruct ==
    (last.op = "parse" /\ last.ok) =>
        \A p \in ParsedGoFiles : \A i \in 1..Len(fs.files[p]) :
            LET m == fs.files[p][i] IN
            m.pattern = "Function" =>
                IF m.first_return_type # None
                       /\ StructEarlier(p, unwrap(m.first_return_type), i)
                THEN /\ ContainedBy(SymName(p, << unwrap(m.first_return_type) >>),
                                    SymName(p, << unwrap(m.first_return_type), m.name >>))
                     /\ ~InGraph(SymName(p, << m.name >>))
                ELSE /\ ContainedBy(PathName(p), SymName(p, << m.name >>))
                     /\ \A n \in names_of(parsed.nodes) :
                            ~(n.path = p /\ Len(n.sym) = 2 /\ n.sym[2] = m.name)

(***************************************************************************)
(* Properties of the import pass                                           *)
(***************************************************************************)
\* the node a pending import points at
ImportedName(imp) ==
    IF imp.symbol = None THEN PathName(imp.source_path)
    ELSE SymName(imp.source_path, unwrap(imp.symbol))

\* both ends of the pending import are among the accumulated nodes
Resolvable(imp) == InGraph(imp.file) /\ InGraph(ImportedName(imp))

\* the positions of the edges the import pass appended
PassEdges == (last.upto + 1)..Len(parsed.relationships)

\* the edge at position j is the IMPORTS edge of the pending import
EdgeOf(j, imp) ==
    LET e == parsed.relationships[j] IN
    /\ e.type = "imports"
    /\ e.from.name = imp.file
    /\ e.to.name = ImportedName(imp)
    /\ e.import = imp.symbol
    /\ e.alias = imp.alias

\* C24: the import pass emits one IMPORTS edge, carrying symbol and alias
\* unchanged, for each pending import whose importing file node and target
\* node are both among the accumulated nodes, no edge for any other pending
\* import, and no error.
C24_ImportsResolvedExactly ==
    last.op = "resolve_pending_imports" =>
        /\ parsed.error = ""
        /\ \A k \in 1..Len(parsed.pending_imports) :
              Resolvable(parsed.pending_imports[k])
                  <=> \E j \in PassEdges : EdgeOf(j, parsed.pending_imports[k])
        /\ \A j \in PassEdges :
              \E k \in 1..Len(parsed.pending_imports) : EdgeOf(j, parsed.pending_imports[k])
        /\ Cardinality(PassEdges)
              = Cardinality({k \in 1..Len(parsed.pending_imports) :
                                Resolvable(parsed.pending_imports[k])})

\* a pass over two pending imports of one file, the namespace import resolved
\* to the file node and the named import of a missing symbol dropped
C24_Witness ==
    /\ last.op = "resolve_pending_imports"
    /\ \E k \in 1..Len(parsed.pending_imports) :
          /\ parsed.pending_imports[k].symbol = None
          /\ Resolvable(parsed.pending_imports[k])
    /\ \E k \in 1..Len(parsed.pending_imports) :
          /\ parsed.pending_imports[k].symbol # None
          /\ InGraph(parsed.pending_imports[k].file)
          /\ InGraph(PathName(parsed.pending_imports[k].source_path))
          /\ ~Resolvable(parsed.pending_imports[k])

(***************************************************************************)
(* The orchestrator driven over repositories whose functions name local,   *)
(* imported, unknown and missing parameter types                           *)
(***************************************************************************)
MaxResolveOps == 3

\* import "repo/p"; func g(y z.U, w K, x p.T) {}: one match for each parameter
GoB3 ==
    << MGoImport(RepoModule \o PDir, None),
       MFunc("Function", "g", "func g(y z.U, w K, x p.T)", 3, None,
             << <<"z", ".", "U">> >>),
       MFunc("Function", "g", "func g(y z.U, w K, x p.T)", 3, None, << <<"K">> >>),
       MFunc("Function", "g", "func g(y z.U, w K, x p.T)", 3, None,
             << <<"p", ".", "T">> >>) >>

\* interface T {}; function k(x: T, y: U) {}
TsT4 ==
    << MType("Interface", "T", "interface T", 0),
       MFunc("Function", "k", "function k(x: T, y: U)", 3, None,
             << <<"T">>, <<"U">> >>) >>

\* function t(x: T) {}
TsT5 == << MFunc("Function", "t", "function t(x: T)", 0, None, << <<"T">> >>) >>

ResolveFsUniverse ==
    { MkFs({<<AGo, GoA1>>, <<BGo, b>>, <<TTs, t>>, <<MTs, TsM1>>}, {PDir}) :
        b \in {GoB1, GoB3}, t \in {TsT1, TsT4, TsT5} }

ResolveTexts(path) ==
    CASE path = TTs -> {TsT0, TsT1, TsT4}
      [] path = AGo -> {GoA1, GoA2}
      [] OTHER -> {}

ResolvePaths == {TTs, MTs, AGo, BGo}

InitResolve ==
    /\ fs \in ResolveFsUniverse
    /\ config = Config(<< >>)
    /\ initialized = FALSE
    /\ db_dir = FALSE
    /\ db_nodes = {}
    /\ db_edges = {}
    /\ parsed = NoParse
    /\ last = NoOp
    /\ steps = 0

\* an edit of a file of the repository
EditFile ==
    \E path \in {TTs, AGo} : \E text \in ResolveTexts(path) :
        /\ steps < MaxResolveOps
        /\ fs.files[path] # text
        /\ fs' = write(fs, path, text)
        /\ last' = [NoOp EXCEPT !.op = "write", !.path = path, !.nodes = db_nodes,
                                !.edges = db_edges, !.dropped = last.dropped,
                                !.prev = Prev]
        /\ steps' = steps + 1
        /\ UNCHANGED <<config, initialized, db_dir, db_nodes, db_edges, parsed>>

\* two of the orders of the walk: one that starts with the directory p and
\* one that starts with a file
ResolveOrders ==
    { CHOOSE order \in Orders(RootPath) : order[1] = PDir,
      CHOOSE order \in Orders(RootPath) : order[1] # PDir }

\* CodeGraph::index(repo_path, force)
IndexRepo ==
    \E force \in BOOLEAN : \E order \in ResolveOrders : \E last_high \in BOOLEAN :
        /\ steps < MaxResolveOps
        /\ \E o \in index(Store, fs, config, RootPath, force, order, FileSteps, last_high) :
              Called("index", RootPath, << >>, force, FileSteps, last_high, o)

\* CodeGraph::index(file, false)
IndexFile ==
    \E path \in ResolvePaths : \E last_high \in BOOLEAN :
        /\ steps < MaxResolveOps
        /\ \E o \in index(Store, fs, config, path, FALSE, << >>, FileSteps, last_high) :
              Called("index", path, << >>, FALSE, FileSteps, last_high, o)

NextResolve == EditFile \/ IndexRepo \/ IndexFile

SpecResolve == InitResolve /\ [][NextResolve]_vars

(***************************************************************************)
(* Properties of the resolution of parameter types                         *)
(***************************************************************************)
\* the parameter-type records of the call
CallRecords ==
    IF last.path = RootPath
    THEN traverse_directory(fs, config,
             CHOOSE order \in Orders(RootPath) : TRUE).func_param_types
    ELSE parse_file(fs, last.path,
                    IF last.op \in {"index", "index_aborted"}
                    THEN fs.files[last.path]
                    ELSE last.bytes).func_param_types

\* the node named name is a definition under the owner of the record: a
\* definition of the owning file for TypeScript, a definition of a file of
\* the owning directory for Go
UnderOwner(pt, name) ==
    /\ pt.package_name # None
    /\ Len(name.sym) = 1
    /\ IF from_path(pt.func.path) = "Go"
       THEN csv_name(PathName(Parent(name.path))) = unwrap(pt.package_name)
       ELSE name.path = unwrap(pt.package_name).path

\* the edge row is the resolution of one of the records
ResolvesRecord(records, e) ==
    \E k \in 1..Len(records) :
        /\ records[k].func = e.from
        /\ \E r \in db_nodes :
              /\ r.name = e.to /\ r.type = e.to_type
              /\ r.short_name = << to_lowercase(records[k].type_name) >>
        /\ UnderOwner(records[k], e.to)

\* the REFERENCES edges the call produced: those it added to the store and,
\* for a completed call on one file, those that start at a node of the file,
\* all of which the call has deleted and written again
ProducedReferences ==
    {e \in db_edges :
        /\ e.type = "references"
        /\ \/ e \in WrittenEdges
           \/ last.ok /\ last.path # RootPath /\ e.from.path = last.path}

\* C25: every REFERENCES edge an index call writes, for a repository or for
\* one file, goes from a function to a node whose case-folded short name is
\* that of a parameter type recorded for the function and which is a
\* definition under the owner the record names.
C25_ReferencesMatchRecords ==
    IndexCall =>
        \A e \in ProducedReferences : ResolvesRecord(CallRecords, e)

\* a single-file call on a Go file that produced the edge of a function to
\* a type of the imported package, after a call on the repository that
\* produced edges to a local and to an imported TypeScript type
C25_Witness ==
    /\ last.op = "index" /\ last.ok /\ last.path = BGo
    /\ \E e \in ProducedReferences : e.from.path = BGo /\ e.to.path = AGo
    /\ \E e \in db_edges :
          e.type = "references" /\ e.from.path = TTs /\ e.to.path = TTs
    /\ \E e \in db_edges :
          e.type = "references" /\ e.from.path = MTs /\ e.to.path = TTs

\* the rows of the store the record can resolve to: the definitions of its
\* owner with the case-folded short name of its type; for a TypeScript
\* record of a call on the repository, the definition named
\* <owner>:<type_name>
TargetRows(pt) ==
    IF pt.package_name = None THEN {}
    ELSE {r \in (IF from_path(pt.func.path) = "Go"
                 THEN contained2(Store, unwrap(pt.package_name))
                 ELSE contained(Store, unwrap(pt.package_name))) :
             /\ r.short_name = << to_lowercase(pt.type_name) >>
             /\ (from_path(pt.func.path) = "TypeScript" /\ last.path = RootPath)
                    => r.name = SymName(unwrap(pt.package_name).path, << pt.type_name >>)}

\* the REFERENCES edges of the store that start at the function of the record
\* and end at a node with the short name of its type
EdgesOf(pt) ==
    {e \in db_edges :
        /\ e.type = "references" /\ e.from = pt.func
        /\ \E r \in db_nodes :
              /\ r.name = e.to /\ r.type = e.to_type
              /\ r.short_name = << to_lowercase(pt.type_name) >>}

RecordsSettled(records) ==
    \A k \in 1..Len(records) :
        IF TargetRows(records[k]) = {}
        THEN EdgesOf(records[k]) = {}
        ELSE \E e \in EdgesOf(records[k]) :
                \E r \in TargetRows(records[k]) : r.name = e.to /\ r.type = e.to_type

\* C26: a call on one file, or a forced call on the repository, returns ok
\* whatever its records; a record whose owner is unknown or whose target is
\* not in the store has no REFERENCES edge, and every other record of the
\* same function has its edge.
C26_UnresolvedRecordsSkipped ==
    (last.op = "index" /\ last.path \in {RootPath} \cup ResolvePaths) =>
        /\ (last.path # RootPath \/ last.force) => last.ok
        /\ last.ok => RecordsSettled(CallRecords)

\* a call on one file whose function has a resolved record, a record with no
\* owner and a record whose target is missing
C26_Witness ==
    /\ last.op = "index" /\ last.ok /\ last.path = BGo
    /\ \E e \in db_edges : e.type = "references" /\ e.from.path = BGo
    /\ \E k \in 1..Len(CallRecords) : CallRecords[k].package_name = None
    /\ \E k \in 1..Len(CallRecords) :
          CallRecords[k].package_name # None /\ TargetRows(CallRecords[k]) = {}

(***************************************************************************)
(* Properties of the reads of the store                                    *)
(***************************************************************************)
\* the call before the read wrote the file at last.prev.path with
\* upsert_nodes and upsert_relationships
ReadAfterUpsert(op) ==
    /\ last.op = op
    /\ last.prev.op \in {"index", "index_dirty_file"}
    /\ last.prev.ok
    /\ last.prev.path # RootPath

NodesReadBack ==
    ReadAfterUpsert("query_nodes") =>
        \A r \in db_nodes :
            r.name.path = last.prev.path => \E n \in last.result : to_dict(n) = r

EdgesReadBack ==
    ReadAfterUpsert("query_relationships") =>
        \A d \in db_edges :
            d.from.path = last.prev.path => \E e \in last.result : edge_to_dict(e) = d

\* C27: a node or an edge written with upsert_nodes or upsert_relationships
\* is read back by query_nodes or query_relationships with the attributes it
\* was written with: name, type, language, start_line, end_line, code and
\* skeleton_code of a node; type, endpoint names and types, import and alias
\* of an edge.
C27_ReadBackAsWritten == NodesReadBack /\ EdgesReadBack

(***************************************************************************)
(* Properties of the walk                                                  *)
(***************************************************************************)
set_of(seq) == {seq[i] : i \in 1..Len(seq)}

\* the graph a walk left is the graph w as sets of nodes and edges
SameGraph(w) ==
    /\ w.error = ""
    /\ set_of(parsed.nodes) = set_of(w.nodes)
    /\ set_of(parsed.relationships) =
          set_of(IF last.op = "parse" THEN w.relationships
                 ELSE w.relationships
                          \o resolve_pending_imports(w.nodes, w.pending_imports))

\* C28: a parse of the repository that returns ok leaves, whatever the order
\* in which the walk yielded the entries, the node set and the edge set that
\* the walk in one fixed order leaves; so do the parse and the import pass
\* together.
C28_WalkOrderIrrelevant ==
    (last.op \in {"parse", "resolve_pending_imports"} /\ parsed.error = "") =>
        SameGraph(traverse_directory(fs, config,
                      CHOOSE order \in WalkOrders(fs, Children(fs, RootPath)) : TRUE))

\* a parse of a repository with a directory holding a file and three files
\* beside it, which the walk can yield in several orders
C28_Witness ==
    /\ last.op = "parse" /\ parsed.error = ""
    /\ Cardinality(WalkOrders(fs, Children(fs, RootPath))) >= 6
    /\ Len(parsed.nodes) >= 6
    /\ \E j \in 1..Len(parsed.relationships) :
          parsed.relationships[j].from.name = PathName(PDir)

\* an edge as the store identifies it: its type and the names and types of
\* its endpoints
edge_key(e) ==
    [type |-> e.type, from |-> e.from.name, from_type |-> e.from.type,
     to |-> e.to.name, to_type |-> e.to.type]

\* both TypeScript resolvers give the same edges for the records, the
\* accumulated nodes of w and the store
ResolversAgree(w) ==
    LET records == of_language(w.func_param_types, "TypeScript") IN
    {edge_key(e) : e \in set_of(ts_resolve_func_param_type_edges(w.nodes, records))}
        = {edge_key(e) : e \in set_of(ts_resolve_func_param_type_edges_from_db(
                                          Store, w.nodes, records, last.last_high))}

\* C29: once a call on the repository has written the nodes and the edges
\* of the parsed graph, the bulk-mode resolver, run on the parameter-type
\* records and the nodes of the parse, and the single-file resolver, run on
\* the same records and nodes against the store, give the same REFERENCES
\* edges.
C29_ResolversAgree ==
    (last.op = "index" /\ last.ok /\ last.path = RootPath) =>
        ResolversAgree(traverse_directory(fs, config,
                           CHOOSE order \in Orders(RootPath) : TRUE))

(***************************************************************************)
(* Properties of a call on one file of an indexed repository               *)
(***************************************************************************)
\* the stores index(repo_path, force = true) leaves for the repository f
FullIndexStores(f) ==
    {o.store : o \in UNION { index(EmptyStore, f, config, RootPath, TRUE,
                                   CHOOSE order \in ResolveOrders : TRUE,
                                   FileSteps, last_high) : last_high \in BOOLEAN }}

\* the texts a file of the repository can have held before an edit
EarlierTexts(path) ==
    ResolveTexts(path) \cup {f.files[path] : f \in ResolveFsUniverse}

\* the call is index(file) right after an edit of the file, on the store a
\* full index of the repository left before the edit
ChangedFileIndexed ==
    /\ last.op = "index" /\ last.ok /\ last.path \in ResolvePaths
    /\ last.prev.op = "write" /\ last.prev.path = last.path
    /\ \E old \in EarlierTexts(last.path) :
          /\ old # fs.files[last.path]
          /\ PreStore \in FullIndexStores(write(fs, last.path, old))

\* C30: index(file) on a changed file of a fully indexed repository leaves
\* the nodes and the edges that index(repo_path, force = true) leaves for
\* the changed repository, the IMPORTS and REFERENCES edges from other files
\* to the definitions of the changed file among them.
C30_FileIndexEqualsFullIndex ==
    ChangedFileIndexed => Store \in FullIndexStores(fs)

=============================================================================
